---- MODULE Spec2Model ----
(***************************************************************************)
(* Model of gongio-mcp: the transcript formatter (src/formatters.ts), the  *)
(* Gong API client (src/gong.ts) and the tool-call handler (src/index.ts). *)
(*                                                                         *)
(* Text is a sequence of one-character strings, so that length, slicing    *)
(* and escaping are computed character by character as String.length,      *)
(* String.slice and String.replace compute them.  An optional value        *)
(* (undefined or null in the source) is None, a present one is Some(v).    *)
(***************************************************************************)
EXTENDS Integers, Sequences, FiniteSets, TLC

VARIABLES
    \* formatCallTranscript and its caller
    transcript,     \* the CallTranscript handed to the formatter
    parties,        \* the party list handed to the formatter (None = null)
    options,        \* the FormatTranscriptOptions of the last request
    output,         \* the lines of the last formatted output
    prevOptions,    \* the request before the last one (None when there is none)
    prevOutput,     \* its output
    \* a caller paging through one transcript
    paging,         \* "idle" | "more" | "done"
    received,       \* the slices received so far, concatenated
    windows,        \* the outputs received so far, in order
    \* one invocation of the tool-call handler
    pc,             \* "idle" | "awaiting" | "done"
    name,           \* request.params.name
    args,           \* request.params.arguments (None = undefined)
    validated,      \* the value the request schema returned
    ops,            \* the client operations the invocation started
    settled,        \* the indices of the operations, in the order they settled
    http,           \* the HTTP requests sent, in order
    bodies,         \* the JSON bodies of these requests (None for a request without one)
    response,       \* the response the handler returned
    escaped,        \* the exception that left the handler
    \* one application of a schema or of a table formatter
    applied,        \* the name of what was applied ("" before)
    given,          \* its argument
    result          \* what it returned

fvars == <<transcript, parties, options, output, prevOptions, prevOutput,
           paging, received, windows>>
hvars == <<pc, name, args, validated, ops, settled, http, bodies, response, escaped>>
avars == <<applied, given, result>>
vars == <<fvars, hvars, avars>>

----------------------------------------------------------------------------
(* Optional values and small helpers *)

None == <<>>
Some(v) == <<v>>
OrElse(o, d) == IF o = None THEN d ELSE o[1]

Min(a, b) == IF a < b THEN a ELSE b

(* Array.prototype.join(sep) over an array of strings *)
RECURSIVE JoinFrom(_, _, _)
JoinFrom(ss, sep, i) ==
    IF i > Len(ss) THEN <<>>
    ELSE IF i = Len(ss) THEN ss[i]
    ELSE ss[i] \o sep \o JoinFrom(ss, sep, i + 1)

Join(ss, sep) == JoinFrom(ss, sep, 1)

(* String.prototype.slice(start, end) for 0 <= start and 0 <= end *)
StrSlice(s, start, end) ==
    LET from == Min(start, Len(s))
        to   == Min(end, Len(s))
    IN  IF from >= to THEN <<>> ELSE SubSeq(s, from + 1, to)

(* String.prototype.replace(/c/g, rep) for a one-character pattern *)
RECURSIVE ReplaceFrom(_, _, _, _)
ReplaceFrom(s, c, rep, i) ==
    IF i > Len(s) THEN <<>>
    ELSE (IF s[i] = c THEN rep ELSE <<s[i]>>) \o ReplaceFrom(s, c, rep, i + 1)

ReplaceAll(s, c, rep) == ReplaceFrom(s, c, rep, 1)

----------------------------------------------------------------------------
(* src/formatters.ts *)

DefaultMaxLength == 10000
DefaultOffset == 0

(* Mutant: carriage returns stay *)
escapeMarkdown_KeepsReturns(text) ==
    ReplaceAll(ReplaceAll(text, "|", <<"\\", "|">>), "\n", <<" ">>)

escapeMarkdown(text) ==
    ReplaceAll(ReplaceAll(ReplaceAll(text, "|", <<"\\", "|">>), "\n", <<" ">>), "\r", <<>>)

SpeakerPrefix == <<"S", "p", "e", "a", "k", "e", "r", " ">>

(* `Speaker ${id}` *)
SpeakerLabel(id) == SpeakerPrefix \o id

(* Mutant: the email address is not used *)
PartyLabel_NameOnly(party) == OrElse(party.name, SpeakerLabel(party.speakerId[1]))

(* party.name ?? party.emailAddress ?? `Speaker ${party.speakerId}` *)
PartyLabel(party) ==
    OrElse(party.name, OrElse(party.emailAddress, SpeakerLabel(party.speakerId[1])))

(* if (party.speakerId): neither null/undefined nor the empty string *)
HasSpeakerId(party) == party.speakerId # None /\ party.speakerId[1] # <<>>

(* The Map built by the loop over parties: a later party with the same       *)
(* speakerId overwrites an earlier one, so the last such party decides.     *)
speakerNames(ps, id) ==
    IF ps = None THEN None
    ELSE LET list == ps[1]
             hits == {i \in 1..Len(list) :
                        HasSpeakerId(list[i]) /\ list[i].speakerId[1] = id}
         IN  IF hits = {} THEN None
             ELSE LET last == CHOOSE i \in hits : \A j \in hits : j <= i
                  IN  Some(PartyLabel(list[last]))

(* One element of fullLines *)
fullLine(ps, entry) ==
    LET speakerName == OrElse(speakerNames(ps, entry.speakerId),
                              SpeakerLabel(entry.speakerId))
        text == Join(entry.sentences, <<" ">>)
    IN  <<"[">> \o escapeMarkdown(speakerName) \o <<"]", ":", " ">>
            \o escapeMarkdown(text) \o <<"\n">>

fullText(t, ps) ==
    Join([i \in 1..Len(t.transcript) |-> fullLine(ps, t.transcript[i])], <<"\n">>)

totalLength(t, ps) == Len(fullText(t, ps))

(* Mutant: the window ends one character early (an inclusive end index) *)
slicedText_ShortByOne(t, ps, offset, maxLength) ==
    StrSlice(fullText(t, ps), offset, offset + maxLength - 1)

(* Mutant: an offset beyond the end shows the last character *)
slicedText_LastCharacter(t, ps, offset, maxLength) ==
    StrSlice(fullText(t, ps), Min(offset, totalLength(t, ps) - 1), offset + maxLength)

slicedText(t, ps, offset, maxLength) ==
    StrSlice(fullText(t, ps), offset, offset + maxLength)

(* Mutant: the start counts as truncated from offset 0 on *)
isTruncatedStart_FromZero(offset) == offset >= 0

isTruncatedStart(offset) == offset > 0

(* Mutant: a window that ends exactly at the end counts as truncated *)
isTruncatedEnd_Inclusive(offset, maxLength, total) == offset + maxLength <= total

isTruncatedEnd(offset, maxLength, total) == offset + maxLength < total

(* Mutant: the upper bound is not clamped to the total length *)
statusLine_Unclamped(offset, maxLength, total) ==
    [kind |-> "status", from |-> offset + 1,
     to |-> offset + maxLength, total |-> total]

(* Mutant: the lower bound is the 0-indexed offset *)
statusLine_ZeroIndexed(offset, maxLength, total) ==
    [kind |-> "status", from |-> offset,
     to |-> Min(offset + maxLength, total), total |-> total]

(* `Showing characters ${offset + 1}-${Math.min(...)} of ${totalLength} total` *)
statusLine(offset, maxLength, total) ==
    [kind |-> "status", from |-> offset + 1,
     to |-> Min(offset + maxLength, total), total |-> total]

(* `To see more, use offset: ${offset + maxLength}` *)
nextOffsetHint(offset, maxLength) ==
    [kind |-> "hint", offset |-> offset + maxLength]

(* Mutant: no early return for a transcript without monologues *)
formatCallTranscript_NoEarlyReturn(t, ps, opts) ==
    LET maxLength == OrElse(opts.maxLength, DefaultMaxLength)
        offset    == OrElse(opts.offset, DefaultOffset)
        total     == totalLength(t, ps)
    IN  <<[kind |-> "heading", callId |-> t.callId]>>
        \o (IF isTruncatedStart(offset) \/ isTruncatedEnd(offset, maxLength, total)
            THEN <<statusLine(offset, maxLength, total)>> ELSE <<>>)
        \o (IF isTruncatedStart(offset)
            THEN <<[kind |-> "truncatedStart"]>> ELSE <<>>)
        \o <<[kind |-> "slice", text |-> slicedText(t, ps, offset, maxLength)]>>
        \o (IF isTruncatedEnd(offset, maxLength, total)
            THEN <<[kind |-> "truncated"], nextOffsetHint(offset, maxLength)>>
            ELSE <<>>)

(* The array `lines` at the return statement; the result is lines.join('\n'). *)
formatCallTranscript(t, ps, opts) ==
    LET maxLength == OrElse(opts.maxLength, DefaultMaxLength)
        offset    == OrElse(opts.offset, DefaultOffset)
        total     == totalLength(t, ps)
        heading   == <<[kind |-> "heading", callId |-> t.callId]>>
    IN  IF Len(t.transcript) = 0
        THEN heading \o <<[kind |-> "empty"]>>
        ELSE heading
             \o (IF isTruncatedStart(offset) \/ isTruncatedEnd(offset, maxLength, total)
                 THEN <<statusLine(offset, maxLength, total)>> ELSE <<>>)
             \o (IF isTruncatedStart(offset)
                 THEN <<[kind |-> "truncatedStart"]>> ELSE <<>>)
             \o <<[kind |-> "slice", text |-> slicedText(t, ps, offset, maxLength)]>>
             \o (IF isTruncatedEnd(offset, maxLength, total)
                 THEN <<[kind |-> "truncated"], nextOffsetHint(offset, maxLength)>>
                 ELSE <<>>)

----------------------------------------------------------------------------
(* Reading a formatted output back, as a caller of the tool does *)

LinesOf(out, k) == SelectSeq(out, LAMBDA l : l.kind = k)
Has(out, k) == LinesOf(out, k) # <<>>
SliceOf(out) == IF Has(out, "slice") THEN LinesOf(out, "slice")[1].text ELSE <<>>
StatusOf(out) == LinesOf(out, "status")[1]
HintOf(out) == LinesOf(out, "hint")[1].offset

----------------------------------------------------------------------------
(* Inputs *)

MaxMonologues == 2
MaxOffset == 12
MaxLen == 12

SpeakerIds == {<<"1">>, <<"2">>}

SentenceLists ==
    { << <<"a", "b">> >>,
      << <<"|">>, <<"\n", "\r">> >> }

(* a speaker with a plain sentence, another speaker, and sentences to escape *)
Monologues ==
    [speakerId : SpeakerIds, sentences : SentenceLists]
        \ {[speakerId |-> <<"2">>, sentences |-> << <<"|">>, <<"\n", "\r">> >>]}

Transcripts ==
    { [callId |-> <<"7">>, transcript |-> ms] :
        ms \in UNION {[1..n -> Monologues] : n \in 0..MaxMonologues} }

PartyLists ==
    { None,
      Some(<< [speakerId |-> Some(<<"1">>), name |-> Some(<<"A">>),
               emailAddress |-> None] >>),
      Some(<< [speakerId |-> Some(<<"1">>), name |-> None,
               emailAddress |-> Some(<<"a", "@", "b">>)],
              [speakerId |-> None, name |-> Some(<<"B">>),
               emailAddress |-> None] >>) }

Offsets == 0..MaxOffset
MaxLengths == 1..MaxLen

----------------------------------------------------------------------------
(* The formatter's caller and the handler before anything happened *)

FormatterIdle ==
    /\ transcript = [callId |-> <<>>, transcript |-> <<>>]
    /\ parties = None
    /\ options = None
    /\ output = None
    /\ prevOptions = None
    /\ prevOutput = None
    /\ paging = "idle"
    /\ received = <<>>
    /\ windows = <<>>

HandlerIdle ==
    /\ pc = "idle"
    /\ name = ""
    /\ args = None
    /\ validated = None
    /\ ops = <<>>
    /\ settled = <<>>
    /\ http = <<>>
    /\ bodies = <<>>
    /\ response = None
    /\ escaped = None

ApplyIdle ==
    /\ applied = ""
    /\ given = None
    /\ result = None

----------------------------------------------------------------------------
(* A caller of formatCallTranscript: one request, then its continuation *)

InitFmt ==
    /\ transcript \in Transcripts
    /\ parties \in PartyLists
    /\ options = None
    /\ output = None
    /\ prevOptions = None
    /\ prevOutput = None
    /\ paging = "idle"
    /\ received = <<>>
    /\ windows = <<>>
    /\ HandlerIdle
    /\ ApplyIdle

(* formatCallTranscript(transcript, parties, {maxLength: m, offset: o}) *)
Request(o, m) ==
    /\ options = None
    /\ options' = Some([maxLength |-> m, offset |-> o])
    /\ output' = Some(formatCallTranscript(transcript, parties, options'[1]))
    /\ UNCHANGED <<transcript, parties, prevOptions, prevOutput,
                   paging, received, windows>>
    /\ UNCHANGED <<hvars, avars>>

(* The continuation request: offset = previous offset + previous maxLength *)
Continue ==
    /\ options # None
    /\ prevOptions = None
    /\ options[1].maxLength # None /\ options[1].offset # None
    /\ prevOptions' = options
    /\ prevOutput' = output
    /\ options' = Some([maxLength |-> options[1].maxLength,
                        offset |-> Some(options[1].offset[1] + options[1].maxLength[1])])
    /\ output' = Some(formatCallTranscript(transcript, parties, options'[1]))
    /\ UNCHANGED <<transcript, parties, paging, received, windows>>
    /\ UNCHANGED <<hvars, avars>>

NextFmt ==
    \/ \E o \in {None} \cup {Some(x) : x \in Offsets},
          m \in {None} \cup {Some(x) : x \in MaxLengths} : Request(o, m)
    \/ Continue

SpecFmt == InitFmt /\ [][NextFmt]_vars

----------------------------------------------------------------------------
(* A caller paging through one transcript with a fixed maxLength: it starts *)
(* at offset 0 and re-requests at the offset of the hint while there is one *)

InitPage ==
    /\ transcript \in Transcripts
    /\ parties \in PartyLists
    /\ \E m \in MaxLengths : options = Some([maxLength |-> Some(m), offset |-> Some(0)])
    /\ output = None
    /\ prevOptions = None
    /\ prevOutput = None
    /\ paging = "more"
    /\ received = <<>>
    /\ windows = <<>>
    /\ HandlerIdle
    /\ ApplyIdle

PageRequest ==
    /\ paging = "more"
    /\ LET out == formatCallTranscript(transcript, parties, options[1])
       IN  /\ output' = Some(out)
           /\ windows' = Append(windows, out)
           /\ received' = received \o SliceOf(out)
           /\ IF Has(out, "hint")
              THEN /\ options' = Some([maxLength |-> options[1].maxLength,
                                       offset |-> Some(HintOf(out))])
                   /\ paging' = "more"
              ELSE /\ options' = options
                   /\ paging' = "done"
    /\ UNCHANGED <<transcript, parties, prevOptions, prevOutput>>
    /\ UNCHANGED <<hvars, avars>>

NextPage == PageRequest

SpecPage == InitPage /\ [][NextPage]_vars

----------------------------------------------------------------------------
(* JSON values of an argument bag *)

Str(s) == [t |-> "string", s |-> s]
Num(n) == [t |-> "number", n |-> n, integer |-> TRUE]
Frac(n) == [t |-> "number", n |-> n, integer |-> FALSE]   \* n + 1/2
Bool(b) == [t |-> "boolean", b |-> b]
Arr(a) == [t |-> "array", a |-> a]

(* obj[key]: None when the key is absent *)
Get(obj, key) == IF key \in DOMAIN obj THEN Some(obj[key]) ELSE None

----------------------------------------------------------------------------
(* src/schemas.ts: primitives *)

Digits == <<"0", "1", "2", "3", "4", "5", "6", "7", "8", "9">>
IsDigit(c) == \E i \in 1..10 : Digits[i] = c
DigitVal(c) == (CHOOSE i \in 1..10 : Digits[i] = c) - 1
AllDigits(s) == \A i \in 1..Len(s) : IsDigit(s[i])

(* the number written by a string of digits *)
RECURSIVE NumVal(_)
NumVal(s) ==
    IF s = <<>> THEN 0
    ELSE 10 * NumVal(SubSeq(s, 1, Len(s) - 1)) + DigitVal(s[Len(s)])

MaxIdDigits == 20

(* Mutant: no upper limit on the number of digits *)
gongIdMatches_NoLimit(s) == Len(s) >= 1 /\ AllDigits(s)

(* /^\d{1,20}$/ *)
gongIdMatches(s) == Len(s) >= 1 /\ Len(s) <= MaxIdDigits /\ AllDigits(s)

(* (?:Z|[+-]\d{2}:\d{2})$ *)
ZoneMatches(z) ==
    \/ z = <<"Z">>
    \/ /\ Len(z) = 6
       /\ z[1] \in {"+", "-"}
       /\ IsDigit(z[2]) /\ IsDigit(z[3]) /\ z[4] = ":" /\ IsDigit(z[5]) /\ IsDigit(z[6])

(* the number of digits of a leading fraction ".ddd" (0 when there is none) *)
FractionDigits(r) ==
    IF r = <<>> \/ r[1] # "."
    THEN 0
    ELSE LET ends == {k \in 1..(Len(r) - 1) :
                        /\ \A j \in 2..(k + 1) : IsDigit(r[j])
                        /\ (k + 2 > Len(r) \/ ~IsDigit(r[k + 2]))}
         IN  IF ends = {} THEN 0 ELSE CHOOSE k \in ends : TRUE

(* /^\d{4}-\d{2}-\d{2}T\d{2}:\d{2}:\d{2}(?:\.\d+)?(?:Z|[+-]\d{2}:\d{2})$/ *)
iso8601Matches(s) ==
    /\ Len(s) >= 20
    /\ AllDigits(SubSeq(s, 1, 4)) /\ s[5] = "-"
    /\ AllDigits(SubSeq(s, 6, 7)) /\ s[8] = "-"
    /\ AllDigits(SubSeq(s, 9, 10)) /\ s[11] = "T"
    /\ AllDigits(SubSeq(s, 12, 13)) /\ s[14] = ":"
    /\ AllDigits(SubSeq(s, 15, 16)) /\ s[17] = ":"
    /\ AllDigits(SubSeq(s, 18, 19))
    /\ LET r == SubSeq(s, 20, Len(s))
           f == FractionDigits(r)
       IN  /\ (r[1] = ".") => f >= 1
           /\ ZoneMatches(IF f = 0 THEN r ELSE SubSeq(r, f + 2, Len(r)))

(* new Date(s) for a string that matches the pattern: the instant in seconds *)
(* since 2000-01-01T00:00:00Z, or None for an Invalid Date.  The sample      *)
(* timestamps carry no fraction.                                             *)
IsLeap(y) == (y % 4 = 0 /\ y % 100 # 0) \/ y % 400 = 0

DaysInMonth(y, m) ==
    IF m = 2 THEN (IF IsLeap(y) THEN 29 ELSE 28)
    ELSE IF m \in {4, 6, 9, 11} THEN 30 ELSE 31

RECURSIVE DaysBeforeMonth(_, _)
DaysBeforeMonth(y, m) ==
    IF m <= 1 THEN 0 ELSE DaysBeforeMonth(y, m - 1) + DaysInMonth(y, m - 1)

LeapsBefore(y) == ((y - 1) \div 4) - ((y - 1) \div 100) + ((y - 1) \div 400)

DaysBeforeYear(y) == 365 * (y - 2000) + (LeapsBefore(y) - LeapsBefore(2000))

DateInstant(s) ==
    LET y  == NumVal(SubSeq(s, 1, 4))
        mo == NumVal(SubSeq(s, 6, 7))
        d  == NumVal(SubSeq(s, 9, 10))
        h  == NumVal(SubSeq(s, 12, 13))
        mi == NumVal(SubSeq(s, 15, 16))
        se == NumVal(SubSeq(s, 18, 19))
        r  == SubSeq(s, 20, Len(s))
        z  == IF FractionDigits(r) = 0 THEN r ELSE SubSeq(r, FractionDigits(r) + 2, Len(r))
        zh == IF z = <<"Z">> THEN 0 ELSE NumVal(SubSeq(z, 2, 3))
        zm == IF z = <<"Z">> THEN 0 ELSE NumVal(SubSeq(z, 5, 6))
        sign == IF z # <<"Z">> /\ z[1] = "-" THEN -1 ELSE 1
        valid == /\ mo \in 1..12 /\ d >= 1 /\ d <= DaysInMonth(y, mo)
                 /\ h <= 23 /\ mi <= 59 /\ se <= 59 /\ zh <= 23 /\ zm <= 59
    IN  IF ~valid THEN None
        ELSE Some((((DaysBeforeYear(y) + DaysBeforeMonth(y, mo) + (d - 1)) * 24 + h) * 60
                    + mi) * 60 + se - sign * (zh * 60 + zm) * 60)

(* Mutant: equal instants pass *)
DateBefore_OrEqual(a, b) ==
    /\ DateInstant(a) # None /\ DateInstant(b) # None
    /\ DateInstant(a)[1] <= DateInstant(b)[1]

(* new Date(a) < new Date(b): false when either is an Invalid Date (NaN) *)
DateBefore(a, b) ==
    /\ DateInstant(a) # None /\ DateInstant(b) # None
    /\ DateInstant(a)[1] < DateInstant(b)[1]

----------------------------------------------------------------------------
(* src/schemas.ts: request schemas *)

MinMaxLength == 1000
MaxMaxLength == 100000

Field(n, t, r) == [name |-> n, type |-> t, required |-> r]

ToolFields(tool) ==
    CASE tool = "list_calls" ->
            << Field("fromDateTime", "datetime", FALSE), Field("toDateTime", "datetime", FALSE),
               Field("workspaceId", "id", FALSE), Field("cursor", "cursor", FALSE) >>
      [] tool = "search_calls" ->
            << Field("fromDateTime", "datetime", FALSE), Field("toDateTime", "datetime", FALSE),
               Field("workspaceId", "id", FALSE), Field("primaryUserIds", "idArray", FALSE),
               Field("callIds", "idArray", FALSE), Field("cursor", "cursor", FALSE) >>
      [] tool \in {"get_call_summary", "get_call"} -> << Field("callId", "id", TRUE) >>
      [] tool = "get_call_transcript" ->
            << Field("callId", "id", TRUE), Field("maxLength", "maxLength", FALSE),
               Field("offset", "offset", FALSE) >>
      [] tool = "list_users" ->
            << Field("cursor", "cursor", FALSE), Field("includeAvatars", "boolean", FALSE) >>
      [] tool = "get_trackers" -> << Field("workspaceId", "id", FALSE) >>
      [] tool = "get_user" -> << Field("userId", "id", TRUE) >>
      [] tool = "search_users" ->
            << Field("userIds", "idArray", FALSE),
               Field("createdFromDateTime", "datetime", FALSE),
               Field("createdToDateTime", "datetime", FALSE), Field("cursor", "cursor", FALSE) >>
      [] tool = "list_library_folders" -> << Field("workspaceId", "id", TRUE) >>
      [] tool = "get_library_folder_calls" -> << Field("folderId", "id", TRUE) >>
      [] OTHER -> << >>

(* the schemas with the refinement `fromDateTime must be before toDateTime` *)
HasDateRangeRule(tool) == tool \in {"list_calls", "search_calls"}

Issue(path, message) == [path |-> path, message |-> message]

IdMessage == "Must be a numeric string up to 20 digits"
DateMessage == "Must be a valid ISO 8601 datetime (e.g., 2024-01-01T00:00:00Z)"
RangeMessage == "fromDateTime must be before toDateTime"

(* The issues of one present value against one primitive schema.  The text *)
(* of a built-in check (type, length, range) is the library's; the model   *)
(* gives each a fixed text.                                                *)
ValueIssues(type, v, path) ==
    CASE type = "id" ->
            IF v.t # "string" THEN <<Issue(path, "Expected string")>>
            ELSE IF ~gongIdMatches(v.s) THEN <<Issue(path, IdMessage)>> ELSE <<>>
      [] type = "datetime" ->
            IF v.t # "string" THEN <<Issue(path, "Expected string")>>
            ELSE IF ~iso8601Matches(v.s) THEN <<Issue(path, DateMessage)>> ELSE <<>>
      [] type = "cursor" ->
            IF v.t # "string" THEN <<Issue(path, "Expected string")>>
            ELSE IF Len(v.s) < 1 THEN <<Issue(path, "Too small: expected at least 1 character")>>
            ELSE <<>>
      [] type = "boolean" ->
            IF v.t # "boolean" THEN <<Issue(path, "Expected boolean")>> ELSE <<>>
      [] type = "maxLength" ->
            IF v.t # "number" THEN <<Issue(path, "Expected number")>>
            ELSE IF ~v.integer THEN <<Issue(path, "Expected integer")>>
            ELSE IF v.n < MinMaxLength THEN <<Issue(path, "Too small: expected >= 1000")>>
            ELSE IF v.n > MaxMaxLength THEN <<Issue(path, "Too big: expected <= 100000")>>
            ELSE <<>>
      [] type = "offset" ->
            IF v.t # "number" THEN <<Issue(path, "Expected number")>>
            ELSE IF ~v.integer THEN <<Issue(path, "Expected integer")>>
            ELSE IF v.n < 0 THEN <<Issue(path, "Too small: expected >= 0")>>
            ELSE <<>>
      [] OTHER -> <<>>

(* z.array(gongIdSchema): one issue per offending element, path <field>.<index> *)
ArrayIssues(v, path) ==
    IF v.t # "array" THEN <<Issue(path, "Expected array")>>
    ELSE LET bad == SelectSeq([i \in 1..Len(v.a) |-> [i |-> i, e |-> v.a[i]]],
                              LAMBDA x : ValueIssues("id", x.e, path) # <<>>)
         IN  [k \in 1..Len(bad) |->
                ValueIssues("id", bad[k].e, path \o <<ToString(bad[k].i - 1)>>)[1]]

(* one key of a z.object: an absent key is accepted unless it is required *)
FieldIssues(f, present) ==
    IF present = None
    THEN (IF f.required THEN <<Issue(<<f.name>>, "Required")>> ELSE <<>>)
    ELSE IF f.type = "idArray" THEN ArrayIssues(present[1], <<f.name>>)
    ELSE ValueIssues(f.type, present[1], <<f.name>>)

RECURSIVE ObjectIssuesFrom(_, _, _)
ObjectIssuesFrom(fields, obj, i) ==
    IF i > Len(fields) THEN <<>>
    ELSE FieldIssues(fields[i], Get(obj, fields[i].name))
            \o ObjectIssuesFrom(fields, obj, i + 1)

(* the refinement of listCallsRequestSchema and searchCallsRequestSchema *)
DateRangeIssues(obj) ==
    IF /\ "fromDateTime" \in DOMAIN obj /\ "toDateTime" \in DOMAIN obj
       /\ obj["fromDateTime"].s # <<>> /\ obj["toDateTime"].s # <<>>
       /\ ~DateBefore(obj["fromDateTime"].s, obj["toDateTime"].s)
    THEN <<Issue(<<>>, RangeMessage)>>
    ELSE <<>>

(* the parsed value of one present key *)
Raw(v) ==
    CASE v.t = "string" -> v.s
      [] v.t = "number" -> v.n
      [] v.t = "boolean" -> v.b
      [] v.t = "array" -> [i \in 1..Len(v.a) |-> v.a[i].s]

(* Mutant: an absent key stays absent *)
FieldValue_NoDefault(f, present) ==
    IF present # None THEN Some(Raw(present[1])) ELSE None

(* the parsed value of one key, with the schema's default when it is absent *)
FieldValue(f, present) ==
    IF present # None THEN Some(Raw(present[1]))
    ELSE IF f.type = "maxLength" THEN Some(DefaultMaxLength)
    ELSE IF f.type = "offset" THEN Some(DefaultOffset)
    ELSE None

(* <schema>.parse(input): the issues of the ZodError it throws (none when   *)
(* it returns).  The refinement is applied to an object whose keys all      *)
(* passed; what the library adds to the issues of an object whose keys did  *)
(* not is left out, the parse throws in either case.                        *)
SchemaIssues(tool, input) ==
    IF input = None THEN <<Issue(<<>>, "Required")>>
    ELSE LET keys == ObjectIssuesFrom(ToolFields(tool), input[1], 1)
         IN  IF keys # <<>> THEN keys
             ELSE IF HasDateRangeRule(tool) THEN DateRangeIssues(input[1])
             ELSE <<>>

(* <schema>.parse(input): the value it returns *)
SchemaValue(tool, input) ==
    LET fields == ToolFields(tool)
    IN  [n \in {fields[i].name : i \in 1..Len(fields)} |->
            LET f == CHOOSE g \in {fields[i] : i \in 1..Len(fields)} : g.name = n
            IN  FieldValue(f, Get(input[1], n))]

----------------------------------------------------------------------------
(* src/schemas.ts: response schemas.  A payload is the JSON body of a       *)
(* response: requestId, the page-info block `records` and the list (or the  *)
(* single object) the schema names; an item carries the key its schema      *)
(* requires (id, callId or metaData) and what the handler reads from it.    *)

Payload(requestId, records, items) ==
    [requestId |-> requestId, records |-> records, items |-> items]

Item(id, monologues, ps) == [id |-> id, transcript |-> monologues, parties |-> ps]

(* the key of the list and the keys the schema requires *)
ListKey(parser) ==
    CASE parser \in {"calls", "callDetails", "folderCalls"} -> "calls"
      [] parser = "transcripts" -> "callTranscripts"
      [] parser = "users" -> "users"
      [] parser = "singleCall" -> "call"
      [] parser = "singleUser" -> "user"
      [] parser = "trackers" -> "keywordTrackers"
      [] parser = "workspaces" -> "workspaces"
      [] parser = "folders" -> "folders"

(* the key of an item its schema requires *)
ItemKey(parser) ==
    CASE parser = "transcripts" -> "callId"
      [] parser = "callDetails" -> "metaData"
      [] OTHER -> "id"

IsPaged(parser) == parser \in {"calls", "callDetails", "transcripts", "users"}
IsSingle(parser) == parser \in {"singleCall", "singleUser"}
ListRequired(parser) == IsPaged(parser) \/ IsSingle(parser)
ItemKeyRequired(parser) == parser # "trackers"

ItemPath(parser, i) ==
    IF IsSingle(parser) THEN <<ListKey(parser), ItemKey(parser)>>
    ELSE <<ListKey(parser), ToString(i - 1), ItemKey(parser)>>

(* <responseSchema>.parse(data): the issues of the ZodError it throws (none *)
(* when it returns)                                                         *)
ResponseIssues(parser, data) ==
    (IF IsPaged(parser) /\ data.requestId = None
     THEN <<Issue(<<"requestId">>, "Required")>> ELSE <<>>)
    \o (IF IsPaged(parser) /\ data.records = None
        THEN <<Issue(<<"records">>, "Required")>> ELSE <<>>)
    \o (IF data.items = None
        THEN (IF ListRequired(parser)
              THEN <<Issue(<<ListKey(parser)>>, "Required")>> ELSE <<>>)
        ELSE LET list == data.items[1]
                 bad == SelectSeq([i \in 1..Len(list) |-> [i |-> i, e |-> list[i]]],
                                  LAMBDA x : ItemKeyRequired(parser) /\ x.e.id = None)
             IN  [k \in 1..Len(bad) |-> Issue(ItemPath(parser, bad[k].i), "Required")])

----------------------------------------------------------------------------
(* src/gong.ts *)

ZodError(issues) == [type |-> "ZodError", issues |-> issues, message |-> <<>>]
Error(message) == [type |-> "Error", issues |-> <<>>, message |-> message]

(* what the remote end does with one request *)
NetworkFailure ==
    [kind |-> "reject", ok |-> FALSE, status |-> 0, statusText |-> "",
     text |-> "fetch failed", json |-> None]
HttpError(status, statusText, body) ==
    [kind |-> "response", ok |-> FALSE, status |-> status, statusText |-> statusText,
     text |-> body, json |-> None]
(* json = None: the body is not JSON *)
HttpOk(json) ==
    [kind |-> "response", ok |-> TRUE, status |-> 200, statusText |-> "OK",
     text |-> "", json |-> json]

(* Mutant: the error message leaves out the response body *)
GongApiError_NoBody(o) ==
    Error(<<"Gong API error: ", ToString(o.status), " ", o.statusText>>)

(* `Gong API error: ${response.status} ${response.statusText} - ${errorText}` *)
GongApiError(o) ==
    Error(<<"Gong API error: ", ToString(o.status), " ", o.statusText, " - ", o.text>>)

(* One client operation: the call of a GongClient method, with the request  *)
(* it sends (callIds is filter.callIds of the body, <<>> when the request   *)
(* carries none), the answer it got and its promise: pending, fulfilled     *)
(* with a value or rejected with an error.                                  *)
ClientOp(op, method, endpoint, callIds, parser) ==
    [op |-> op, method |-> method, endpoint |-> endpoint, callIds |-> callIds,
     parser |-> parser, answer |-> None, state |-> "pending", value |-> None,
     error |-> None]

listCalls == ClientOp("listCalls", "GET", <<"/calls">>, <<>>, "calls")
getCallDetails(callIds) ==
    ClientOp("getCallDetails", "POST", <<"/calls/extensive">>, callIds, "callDetails")
getTranscripts(callIds) ==
    ClientOp("getTranscripts", "POST", <<"/calls/transcript">>, callIds, "transcripts")
searchCalls(callIds) ==
    ClientOp("searchCalls", "POST", <<"/calls/extensive">>, callIds, "callDetails")
listUsers == ClientOp("listUsers", "GET", <<"/users">>, <<>>, "users")
getCall(callId) == ClientOp("getCall", "GET", <<"/calls/">> \o callId, <<>>, "singleCall")
getUser(userId) == ClientOp("getUser", "GET", <<"/users/">> \o userId, <<>>, "singleUser")
searchUsers == ClientOp("searchUsers", "POST", <<"/users/extensive">>, <<>>, "users")
getTrackers == ClientOp("getTrackers", "GET", <<"/settings/trackers">>, <<>>, "trackers")
listWorkspaces == ClientOp("listWorkspaces", "GET", <<"/workspaces">>, <<>>, "workspaces")
listLibraryFolders ==
    ClientOp("listLibraryFolders", "GET", <<"/library/folders">>, <<>>, "folders")
getLibraryFolderCalls ==
    ClientOp("getLibraryFolderCalls", "GET", <<"/library/folder-content">>, <<>>,
             "folderCalls")

(* request() / get() from the answer on, then the method's parse...Response: *)
(* the promise of the client operation settles.                             *)
request(op, o) ==
    LET sent == [op EXCEPT !.answer = Some(o)]
    IN  IF o.kind = "reject"
        THEN [sent EXCEPT !.state = "rejected", !.error = Some(Error(<<o.text>>))]
        ELSE IF ~o.ok
        THEN [sent EXCEPT !.state = "rejected", !.error = Some(GongApiError(o))]
        ELSE IF o.json = None
        THEN [sent EXCEPT !.state = "rejected",
                          !.error = Some(Error(<<"Unexpected token in JSON">>))]
        ELSE IF ResponseIssues(op.parser, o.json[1]) # <<>>
        THEN [sent EXCEPT !.state = "rejected",
                          !.error = Some(ZodError(ResponseIssues(op.parser, o.json[1])))]
        ELSE [sent EXCEPT !.state = "fulfilled", !.value = o.json]

(* the fetch call of request() / get(): one HTTP request per call *)
HttpRequest(op) ==
    [method |-> op.method, endpoint |-> op.endpoint, callIds |-> op.callIds]

(* The JSON body of a POST request: an object is a function over its keys.  *)
(* `if (options.x)` holds for a non-empty string, and the array keys are    *)
(* written under `options.x && options.x.length > 0`.                       *)

(* Mutant: a key is written whenever it was given, empty or not *)
Supplied_Present(o) == o # None

Supplied(o) == o # None /\ o[1] # <<>>

PutIf(obj, key, o) == IF Supplied(o) THEN (key :> o[1]) @@ obj ELSE obj

(* searchCalls: filter *)
searchCallsFilter(opts) ==
    PutIf(PutIf(PutIf(PutIf(PutIf(<<>>,
        "fromDateTime", opts["fromDateTime"]),
        "toDateTime", opts["toDateTime"]),
        "workspaceId", opts["workspaceId"]),
        "primaryUserIds", opts["primaryUserIds"]),
        "callIds", opts["callIds"])

(* Mutant: the cursor is written into the filter *)
searchCallsBody_CursorInFilter(opts) ==
    "filter" :> PutIf(searchCallsFilter(opts), "cursor", opts["cursor"])

(* searchCalls: body = {filter}, then body.cursor *)
searchCallsBody(opts) ==
    PutIf("filter" :> searchCallsFilter(opts), "cursor", opts["cursor"])

(* searchUsers: filter *)
searchUsersFilter(opts) ==
    PutIf(PutIf(PutIf(<<>>,
        "userIds", opts["userIds"]),
        "createdFromDateTime", opts["createdFromDateTime"]),
        "createdToDateTime", opts["createdToDateTime"])

(* searchUsers: body = {filter}, then body.cursor *)
searchUsersBody(opts) ==
    PutIf("filter" :> searchUsersFilter(opts), "cursor", opts["cursor"])

(* Mutant: the selector leaves out the trackers *)
getCallDetailsBody_NoTrackers(callIds) ==
    [filter |-> [callIds |-> callIds],
     contentSelector |->
        [exposedFields |->
            [content |-> [brief |-> TRUE, outline |-> TRUE, keyPoints |-> TRUE,
                          topics |-> TRUE, pointsOfInterest |-> TRUE,
                          callOutcome |-> TRUE],
             parties |-> TRUE,
             collaboration |-> [publicComments |-> TRUE],
             interaction |-> [speakers |-> TRUE, questions |-> TRUE]]]]

(* getCallDetails: body *)
getCallDetailsBody(callIds) ==
    [filter |-> [callIds |-> callIds],
     contentSelector |->
        [exposedFields |->
            [content |-> [brief |-> TRUE, outline |-> TRUE, keyPoints |-> TRUE,
                          topics |-> TRUE, pointsOfInterest |-> TRUE,
                          callOutcome |-> TRUE, trackers |-> TRUE],
             parties |-> TRUE,
             collaboration |-> [publicComments |-> TRUE],
             interaction |-> [speakers |-> TRUE, questions |-> TRUE]]]]

(* getTranscripts: body *)
getTranscriptsBody(callIds) == [filter |-> [callIds |-> callIds]]

----------------------------------------------------------------------------
(* src/index.ts: the CallToolRequestSchema handler *)

ToolNames ==
    {"list_calls", "get_call_summary", "get_call_transcript", "list_users",
     "search_calls", "get_call", "get_trackers", "get_user", "search_users",
     "list_workspaces", "list_library_folders", "get_library_folder_calls"}

(* the cases that parse `args ?? {}` *)
DefaultsToEmpty ==
    {"list_calls", "list_users", "search_calls", "get_trackers", "search_users"}

(* Mutant: get_trackers hands its arguments to the client unparsed *)
Validates_ExceptTrackers(tool) == tool \in ToolNames \ {"list_workspaces", "get_trackers"}

(* the cases that parse their arguments at all *)
Validates(tool) == tool \in ToolNames \ {"list_workspaces"}

ParseInput(tool, a) == IF a = None /\ tool \in DefaultsToEmpty THEN Some(<<>>) ELSE a

(* the client calls a case makes before its first await *)
ClientCalls(tool, v) ==
    CASE tool = "list_calls" -> <<listCalls>>
      [] tool = "get_call_summary" -> <<getCallDetails(<<v["callId"][1]>>)>>
      [] tool = "get_call_transcript" ->
            <<getTranscripts(<<v["callId"][1]>>), getCallDetails(<<v["callId"][1]>>)>>
      [] tool = "list_users" -> <<listUsers>>
      [] tool = "search_calls" -> <<searchCalls(OrElse(v["callIds"], <<>>))>>
      [] tool = "get_call" -> <<getCall(v["callId"][1])>>
      [] tool = "get_trackers" -> <<getTrackers>>
      [] tool = "get_user" -> <<getUser(v["userId"][1])>>
      [] tool = "search_users" -> <<searchUsers>>
      [] tool = "list_workspaces" -> <<listWorkspaces>>
      [] tool = "list_library_folders" -> <<listLibraryFolders>>
      [] tool = "get_library_folder_calls" -> <<getLibraryFolderCalls>>

(* the bodies of the requests of these calls: a GET request has none *)
ClientBodies(tool, v) ==
    CASE tool = "get_call_summary" -> <<Some(getCallDetailsBody(<<v["callId"][1]>>))>>
      [] tool = "get_call_transcript" ->
            <<Some(getTranscriptsBody(<<v["callId"][1]>>)),
              Some(getCallDetailsBody(<<v["callId"][1]>>))>>
      [] tool = "search_calls" -> <<Some(searchCallsBody(v))>>
      [] tool = "search_users" -> <<Some(searchUsersBody(v))>>
      [] OTHER -> <<None>>

FormatterOf(tool) ==
    CASE tool = "list_calls" -> "formatCallsResponse"
      [] tool = "list_users" -> "formatUsersResponse"
      [] tool = "search_calls" -> "formatCallDetailsResponse"
      [] tool = "get_call" -> "formatSingleCall"
      [] tool = "get_trackers" -> "formatTrackersResponse"
      [] tool = "get_user" -> "formatSingleUser"
      [] tool = "search_users" -> "formatUsersResponse"
      [] tool = "list_workspaces" -> "formatWorkspacesResponse"
      [] tool = "list_library_folders" -> "formatLibraryFoldersResponse"
      [] tool = "get_library_folder_calls" -> "formatLibraryFolderCallsResponse"

(* the text a formatter other than formatCallTranscript returns for a value *)
Formatted(by, of) == <<[kind |-> "formatted", by |-> by, of |-> of]>>

(* How an invocation ends: the response it returns, or the exception that   *)
(* leaves the handler.  isError = FALSE stands for a response without the   *)
(* isError key.                                                             *)
Returns(text, isError) ==
    [returned |-> Some([content |-> <<[type |-> "text", text |-> text]>>,
                        isError |-> isError]),
     thrown |-> None]
Throws(error) == [returned |-> None, thrown |-> Some(error)]

(* `${path}${issue.message}` with path = issue.path.join('.') + ': ' *)
IssueText(issue) ==
    (IF Len(issue.path) > 0
     THEN Join([i \in 1..Len(issue.path) |-> <<issue.path[i]>>], <<".">>) \o <<": ">>
     ELSE <<>>)
    \o <<issue.message>>

(* the message the catch block builds *)
CatchMessage(error) ==
    IF error.type = "ZodError"
    THEN <<"Validation error: ">>
            \o Join([i \in 1..Len(error.issues) |-> IssueText(error.issues[i])], <<"; ">>)
    ELSE error.message

(* Mutant: only validation errors are turned into a response *)
Catch_ZodOnly(error) ==
    IF error.type = "ZodError"
    THEN Returns(<<"Error: ">> \o CatchMessage(error), TRUE)
    ELSE Throws(error)

(* the catch block *)
Catch(error) == Returns(<<"Error: ">> \o CatchMessage(error), TRUE)

(* Mutant: the case goes on as soon as the transcript fetch is fulfilled *)
Awaited_FirstOnly(os) == os[1].state = "fulfilled"

(* the await of the case is over: every promise it waits for is fulfilled   *)
(* (Promise.all for get_call_transcript)                                    *)
Awaited(os) == \A i \in 1..Len(os) : os[i].state = "fulfilled"

(* result.calls[0] / transcriptResult.callTranscripts[0] *)
FirstItem(op) ==
    IF op.value = None \/ op.value[1].items = None \/ op.value[1].items[1] = <<>>
    THEN None
    ELSE Some(op.value[1].items[1][1])

(* details?.parties *)
PartiesOf(details) == IF details = None THEN None ELSE details[1].parties

(* Mutant: an empty result set is handed to the formatter *)
Complete_NoNotFound(tool, v, os) ==
    CASE tool = "get_call_summary" -> Returns(Formatted("formatCallSummary", FirstItem(os[1])), FALSE)
      [] tool = "get_call_transcript" ->
            Returns(formatCallTranscript(
                        [callId |-> v["callId"][1],
                         transcript |-> IF FirstItem(os[1]) = None THEN <<>>
                                        ELSE FirstItem(os[1])[1].transcript],
                        PartiesOf(FirstItem(os[2])),
                        [maxLength |-> v["maxLength"], offset |-> v["offset"]]), FALSE)
      [] OTHER -> Returns(Formatted(FormatterOf(tool), os[1].value[1]), FALSE)

(* Mutant: a call without details is not found *)
Complete_DetailsRequired(tool, v, os) ==
    CASE tool = "get_call_summary" ->
            IF FirstItem(os[1]) = None
            THEN Catch(Error(<<"Call not found: ">> \o v["callId"][1]))
            ELSE Returns(Formatted("formatCallSummary", FirstItem(os[1])[1]), FALSE)
      [] tool = "get_call_transcript" ->
            IF FirstItem(os[1]) = None \/ FirstItem(os[2]) = None
            THEN Catch(Error(<<"Transcript not found: ">> \o v["callId"][1]))
            ELSE Returns(formatCallTranscript(
                            [callId |-> FirstItem(os[1])[1].id[1],
                             transcript |-> FirstItem(os[1])[1].transcript],
                            PartiesOf(FirstItem(os[2])),
                            [maxLength |-> v["maxLength"], offset |-> v["offset"]]), FALSE)
      [] OTHER -> Returns(Formatted(FormatterOf(tool), os[1].value[1]), FALSE)

(* the case from its await on: the not-found checks and the formatter *)
Complete(tool, v, os) ==
    CASE tool = "get_call_summary" ->
            IF FirstItem(os[1]) = None
            THEN Catch(Error(<<"Call not found: ">> \o v["callId"][1]))
            ELSE Returns(Formatted("formatCallSummary", FirstItem(os[1])[1]), FALSE)
      [] tool = "get_call_transcript" ->
            IF FirstItem(os[1]) = None
            THEN Catch(Error(<<"Transcript not found: ">> \o v["callId"][1]))
            ELSE Returns(formatCallTranscript(
                            [callId |-> FirstItem(os[1])[1].id[1],
                             transcript |-> FirstItem(os[1])[1].transcript],
                            PartiesOf(FirstItem(os[2])),
                            [maxLength |-> v["maxLength"], offset |-> v["offset"]]), FALSE)
      [] OTHER -> Returns(Formatted(FormatterOf(tool), os[1].value[1]), FALSE)

(* the synchronous part of the handler: the switch up to the first await *)
Dispatch(tool, a) ==
    IF tool \notin ToolNames
    THEN [end |-> Some(Catch(Error(<<"Unknown tool: ", tool>>))),
          validated |-> None, calls |-> <<>>]
    ELSE IF Validates(tool) /\ SchemaIssues(tool, ParseInput(tool, a)) # <<>>
    THEN [end |-> Some(Catch(ZodError(SchemaIssues(tool, ParseInput(tool, a))))),
          validated |-> None, calls |-> <<>>]
    ELSE LET v == IF Validates(tool) THEN SchemaValue(tool, ParseInput(tool, a)) ELSE <<>>
         IN  [end |-> None, validated |-> Some(v), calls |-> ClientCalls(tool, v)]

----------------------------------------------------------------------------
(* Inputs of the tool-call handler: tool names, argument bags and what the  *)
(* remote end answers                                                       *)

MaxItems == 1

RequestNames == ToolNames \cup {"delete_call"}

GoodId == <<"7">>
LongId == [i \in 1..(MaxIdDigits + 1) |-> "1"]

\* 2024-01-01T00:00:00Z
NewYear ==
    <<"2", "0", "2", "4", "-", "0", "1", "-", "0", "1", "T",
      "0", "0", ":", "0", "0", ":", "0", "0", "Z">>
\* 2024-01-01T01:00:00+02:00, one hour before NewYear
NewYearEve ==
    <<"2", "0", "2", "4", "-", "0", "1", "-", "0", "1", "T",
      "0", "1", ":", "0", "0", ":", "0", "0", "+", "0", "2", ":", "0", "0">>
\* 2024-13-01T00:00:00Z matches the pattern and is an Invalid Date
NoSuchMonth ==
    <<"2", "0", "2", "4", "-", "1", "3", "-", "0", "1", "T",
      "0", "0", ":", "0", "0", ":", "0", "0", "Z">>

Samples(type) ==
    CASE type = "id" -> {Str(GoodId), Str(<<"7", "x">>), Str(LongId), Num(7)}
      [] type = "datetime" ->
            {Str(NewYear), Str(NewYearEve), Str(NoSuchMonth), Str(<<"x">>)}
      [] type = "cursor" -> {Str(<<"c">>), Str(<<>>)}
      [] type = "boolean" -> {Bool(TRUE), Str(<<"y">>)}
      [] type = "idArray" ->
            {Arr(<<>>), Arr(<<Str(GoodId)>>), Arr(<<Str(GoodId), Str(<<"7", "x">>)>>)}
      [] type = "maxLength" ->
            {Num(MinMaxLength - 1), Num(MinMaxLength), Num(MaxMaxLength),
             Num(MaxMaxLength + 1), Frac(MinMaxLength)}
      [] type = "offset" -> {Num(-1), Num(0), Num(5), Frac(0)}

Put(bag, key, present) == IF present = None THEN bag ELSE (key :> present[1]) @@ bag

RECURSIVE BagsFrom(_, _)
BagsFrom(fields, i) ==
    IF i > Len(fields) THEN {<<>>}
    ELSE {Put(bag, fields[i].name, present) :
            bag \in BagsFrom(fields, i + 1),
            present \in {None} \cup {Some(x) : x \in Samples(fields[i].type)}}

(* the `arguments` of a request: absent, or an object over the tool's keys *)
ArgBags(tool) == {None} \cup {Some(bag) : bag \in BagsFrom(ToolFields(tool), 1)}

SampleMonologues ==
    { <<>>,
      << [speakerId |-> <<"1">>, sentences |-> << <<"a", "b">> >>],
         [speakerId |-> <<"2">>, sentences |-> << <<"|">>, <<"\n", "\r">> >>] >> }

Items(parser) ==
    {Item(None, <<>>, None)}
    \cup CASE parser = "transcripts" -> {Item(Some(GoodId), ms, None) : ms \in SampleMonologues}
           [] parser = "callDetails" -> {Item(Some(GoodId), <<>>, ps) : ps \in PartyLists}
           [] OTHER -> {Item(Some(GoodId), <<>>, None)}

ItemLists(parser) ==
    IF IsSingle(parser) THEN {<<x>> : x \in Items(parser)}
    ELSE UNION {[1..n -> Items(parser)] : n \in 0..MaxItems}

PageInfo == Some([totalRecords |-> 1, currentPageSize |-> 1, currentPageNumber |-> 0])

Payloads(parser) ==
    {Payload(Some(<<"r">>), PageInfo, Some(list)) : list \in ItemLists(parser)}
    \cup {Payload(None, PageInfo, Some(<<>>)),
          Payload(Some(<<"r">>), None, Some(<<>>)),
          Payload(Some(<<"r">>), PageInfo, None)}

Outcomes(parser) ==
    {NetworkFailure,
     HttpError(404, "Not Found", ""),
     HttpError(500, "Internal Server Error", "boom"),
     HttpOk(None)}
    \cup {HttpOk(Some(p)) : p \in Payloads(parser)}

----------------------------------------------------------------------------
(* One invocation of the tool-call handler *)

Init == HandlerIdle /\ FormatterIdle /\ ApplyIdle

(* the invocation ends: the handler's promise resolves or rejects *)
Ends(end) ==
    /\ pc' = "done"
    /\ response' = end.returned
    /\ escaped' = end.thrown

(* The request arrives: the handler runs up to its await.  An async client  *)
(* method runs synchronously up to its fetch call, so every request of the  *)
(* case is out when the handler suspends.                                   *)
CallTool(n, a) ==
    /\ pc = "idle"
    /\ name' = n
    /\ args' = a
    /\ LET d == Dispatch(n, a)
       IN  /\ validated' = d.validated
           /\ ops' = d.calls
           /\ http' = [i \in 1..Len(d.calls) |-> HttpRequest(d.calls[i])]
           /\ bodies' = IF d.end # None THEN <<>> ELSE ClientBodies(n, d.validated[1])
           /\ IF d.end # None
              THEN Ends(d.end[1])
              ELSE pc' = "awaiting" /\ UNCHANGED <<response, escaped>>
    /\ UNCHANGED settled
    /\ UNCHANGED <<fvars, avars>>

(* The remote end answers request i (or the connection fails): the client   *)
(* operation settles, and the handler resumes if that ends its await.  A    *)
(* promise that settles after the handler returned changes nothing else.    *)
Settle(i, o) ==
    /\ pc # "idle"
    /\ i \in 1..Len(ops)
    /\ ops[i].state = "pending"
    /\ ops' = [ops EXCEPT ![i] = request(ops[i], o)]
    /\ settled' = Append(settled, i)
    /\ IF pc = "awaiting" /\ ops'[i].state = "rejected"
       THEN Ends(Catch(ops'[i].error[1]))
       ELSE IF pc = "awaiting" /\ Awaited(ops')
       THEN Ends(Complete(name, validated[1], ops'))
       ELSE UNCHANGED <<pc, response, escaped>>
    /\ UNCHANGED <<name, args, validated, http, bodies>>
    /\ UNCHANGED <<fvars, avars>>

Next ==
    \/ \E n \in RequestNames : \E a \in ArgBags(n) : CallTool(n, a)
    \/ \E i \in 1..Len(ops) : \E o \in Outcomes(ops[i].parser) : Settle(i, o)

Spec == Init /\ [][Next]_vars

----------------------------------------------------------------------------
(* One application of a request schema (safeParse) *)

MaxIdLen == 3

IdAlphabet == {"0", "7", "x", " "}

(* every string over the alphabet up to MaxIdLen, and digit strings around  *)
(* the length limit                                                         *)
IdStrings ==
    UNION {[1..n -> IdAlphabet] : n \in 0..MaxIdLen}
    \cup {[i \in 1..n |-> "9"] : n \in (MaxIdDigits - 1)..(MaxIdDigits + 2)}

(* the keys validated by gongIdSchema alone *)
IdFields ==
    {<<"get_call", "callId">>, <<"get_call_summary", "callId">>, <<"get_user", "userId">>,
     <<"list_library_folders", "workspaceId">>, <<"get_library_folder_calls", "folderId">>}

\* 2024-01-01T02:00:00+02:00, the instant of NewYear
NewYearAbroad ==
    <<"2", "0", "2", "4", "-", "0", "1", "-", "0", "1", "T",
      "0", "2", ":", "0", "0", ":", "0", "0", "+", "0", "2", ":", "0", "0">>
\* 2023-12-31T20:00:00-05:00, one hour after NewYear
NewYearWest ==
    <<"2", "0", "2", "3", "-", "1", "2", "-", "3", "1", "T",
      "2", "0", ":", "0", "0", ":", "0", "0", "-", "0", "5", ":", "0", "0">>
\* 2024-02-29T00:00:00Z
LeapDay ==
    <<"2", "0", "2", "4", "-", "0", "2", "-", "2", "9", "T",
      "0", "0", ":", "0", "0", ":", "0", "0", "Z">>

DateStrings == {NewYear, NewYearEve, NewYearAbroad, NewYearWest, LeapDay, NoSuchMonth, <<"x">>}

DateRangeTools == {"list_calls", "search_calls"}

(* the objects handed to a schema *)
SchemaInputs(tool) ==
    {(f[2] :> Str(s)) : f \in {g \in IdFields : g[1] = tool}, s \in IdStrings}
    \cup (IF tool \in DateRangeTools
          THEN {Put(Put(<<>>, "fromDateTime", from), "toDateTime", to) :
                  from \in {None} \cup {Some(Str(x)) : x \in DateStrings},
                  to \in {None} \cup {Some(Str(x)) : x \in DateStrings}}
          ELSE {})

(* <schema>.safeParse(input) *)
safeParse(tool, input) ==
    IF SchemaIssues(tool, input) = <<>>
    THEN [success |-> TRUE, data |-> Some(SchemaValue(tool, input)), issues |-> <<>>]
    ELSE [success |-> FALSE, data |-> None, issues |-> SchemaIssues(tool, input)]

InitSchema == ApplyIdle /\ HandlerIdle /\ FormatterIdle

Parse(tool, input) ==
    /\ applied = ""
    /\ applied' = tool
    /\ given' = input
    /\ result' = safeParse(tool, Some(input))
    /\ UNCHANGED <<fvars, hvars>>

NextSchema == \E tool \in ToolNames : \E input \in SchemaInputs(tool) : Parse(tool, input)

SpecSchema == InitSchema /\ [][NextSchema]_vars

----------------------------------------------------------------------------
(* src/formatters.ts: the table formatters.  The result is the array `lines` *)
(* at the return statement (the function returns lines.join('\n')); a line  *)
(* is its kind and its cells, a table row has one cell per column and any   *)
(* other line one cell, its text.  A cell is a sequence of strings: the     *)
(* characters of a free text, or the literal pieces of a template.          *)

TitleLength == 50
UserTitleLength == 30
NameLength == 40
DescriptionLength == 60
NoteLength == 60
MaxKeywords == 5

Line(kind, cells) == [kind |-> kind, cells |-> cells]
TextLine(kind, text) == Line(kind, <<text>>)
Dash == <<"-">>

(* a string used as a condition: neither undefined/null nor '' *)
TruthyText(o) == o # None /\ o[1] # <<>>
(* a number used as a condition: neither undefined/null nor 0 *)
TruthyNumber(o) == o # None /\ o[1] # 0

(* Math.round(n / m) for integers n and m > 0: floor(n / m + 1/2) *)
MathRound(n, m) == (2 * n + m) \div (2 * m)

(* Math.floor(n / m) *)
MathFloor(n, m) == n \div m

(* new Date(text).toLocaleDateString(): the text of the date in the locale  *)
(* of the process, kept as a term over the timestamp                        *)
toLocaleDateString(text) == <<"toLocaleDateString(">> \o text \o <<")">>

(* text?.slice(0, n) ?? '-' *)
SliceOrDash(o, n) == IF o = None THEN Dash ELSE StrSlice(o[1], 0, n)

(* the backquote that delimits inline code, the en dash and the ellipsis,   *)
(* written as their escapes                                                 *)
Backquote == "\\u0060"
EnDash == "\\u2013"
Ellipsis == "\\u2026"

(* the template literal '\n*More results available. Cursor:* ' followed by  *)
(* the cursor between backquotes                                            *)
cursorNote(cursor) ==
    TextLine("cursorNote",
             <<"\n*More results available. Cursor:* ", Backquote>> \o cursor \o <<Backquote>>)

(* if (response.records.cursor) lines.push(...): reached after the rows only *)
cursorLines(records, rows) ==
    IF rows # <<>> /\ TruthyText(records.cursor) THEN <<cursorNote(records.cursor[1])>> ELSE <<>>

(* Mutant: the table is written for an empty collection too *)
table_Always(heading, sentence, columns, separators, rows) ==
    <<heading, Line("tableHeader", columns), Line("separator", separators)>> \o rows

(* the lines after the heading: the sentence and the early return for an    *)
(* empty collection, the table otherwise                                    *)
table(heading, sentence, columns, separators, rows) ==
    IF Len(rows) = 0
    THEN <<heading, TextLine("sentence", sentence)>>
    ELSE <<heading, Line("tableHeader", columns), Line("separator", separators)>> \o rows

Dashes(n, piece) == [i \in 1..n |-> <<piece>>]

CallsColumns == << <<"ID">>, <<"Title">>, <<"Date">>, <<"Duration">>, <<"Scope">> >>

callsHeading(records) ==
    TextLine("header", <<"**Calls** (", ToString(records.totalRecords), " total)\n">>)

(* one row of the calls table, from a call or from the metaData of a call *)
callRow(call) ==
    LET date == IF TruthyText(call.started) THEN toLocaleDateString(call.started[1]) ELSE Dash
        duration == IF TruthyNumber(call.duration)
                    THEN <<ToString(MathRound(call.duration[1], 60)), "m">>
                    ELSE Dash
        title == SliceOrDash(call.title, TitleLength)
    IN  Line("row", <<call.id, escapeMarkdown(title), date, duration, OrElse(call.scope, Dash)>>)

formatCallsResponse(res) ==
    LET rows == [i \in 1..Len(res.calls) |-> callRow(res.calls[i])]
    IN  table(callsHeading(res.records), <<"No calls found.">>,
              CallsColumns, Dashes(5, "---"), rows)
        \o cursorLines(res.records, rows)

formatCallDetailsResponse(res) ==
    LET rows == [i \in 1..Len(res.calls) |-> callRow(res.calls[i].metaData)]
    IN  table(callsHeading(res.records), <<"No calls found.">>,
              CallsColumns, Dashes(5, "---"), rows)
        \o cursorLines(res.records, rows)

(* [user.firstName, user.lastName].filter(Boolean).join(' ') || '-' *)
userName(user) ==
    LET kept == (IF TruthyText(user.firstName) THEN <<user.firstName[1]>> ELSE <<>>)
                \o (IF TruthyText(user.lastName) THEN <<user.lastName[1]>> ELSE <<>>)
        joined == Join(kept, <<" ">>)
    IN  IF joined = <<>> THEN Dash ELSE joined

userRow(user) ==
    LET title == SliceOrDash(user.title, UserTitleLength)
        active == IF user.active = Some(TRUE) THEN <<"Yes">> ELSE <<"No">>
    IN  Line("row", <<user.id, escapeMarkdown(userName(user)), OrElse(user.emailAddress, Dash),
                      escapeMarkdown(title), active>>)

formatUsersResponse(res) ==
    LET rows == [i \in 1..Len(res.users) |-> userRow(res.users[i])]
    IN  table(TextLine("header",
                  <<"**Users** (", ToString(res.records.totalRecords), " total)\n">>),
              <<"No users found.">>,
              << <<"ID">>, <<"Name">>, <<"Email">>, <<"Title">>, <<"Active">> >>,
              Dashes(5, "---"), rows)
        \o cursorLines(res.records, rows)

(* (languageKeywords ?? []).flatMap((lk) => lk.keywords ?? []) *)
RECURSIVE flatKeywords(_, _)
flatKeywords(lks, i) ==
    IF i > Len(lks) THEN <<>>
    ELSE OrElse(lks[i].keywords, <<>>) \o flatKeywords(lks, i + 1)

(* Mutant: nothing is cut *)
ArraySlice_All(xs, n) == xs

(* Array.prototype.slice(0, n) *)
ArraySlice(xs, n) == SubSeq(xs, 1, Min(n, Len(xs)))

trackerRow(tracker) ==
    LET trackerName == escapeMarkdown(SliceOrDash(tracker.trackerName, NameLength))
        kept == ArraySlice(flatKeywords(OrElse(tracker.languageKeywords, <<>>), 1), MaxKeywords)
        allKeywords == Join([i \in 1..Len(kept) |-> escapeMarkdown(kept[i])], <<",", " ">>)
        keywordsDisplay == IF allKeywords = <<>> THEN Dash ELSE allKeywords
    IN  Line("row", <<trackerName, OrElse(tracker.affiliation, Dash), OrElse(tracker.saidAt, Dash),
                      keywordsDisplay>>)

formatTrackersResponse(res) ==
    LET trackers == OrElse(res.keywordTrackers, <<>>)
    IN  table(TextLine("header",
                  <<"**Keyword Trackers** (", ToString(Len(trackers)), " total)\n">>),
              <<"No trackers found.">>,
              << <<"Name">>, <<"Affiliation">>, <<"Tracks">>, <<"Keywords">> >>,
              << <<"------">>, <<"-------------">>, <<"--------">>, <<"----------">> >>,
              [i \in 1..Len(trackers) |-> trackerRow(trackers[i])])

workspaceRow(ws) ==
    Line("row", <<ws.id, escapeMarkdown(SliceOrDash(ws.name, NameLength)),
                  escapeMarkdown(SliceOrDash(ws.description, DescriptionLength))>>)

formatWorkspacesResponse(res) ==
    LET workspaces == OrElse(res.workspaces, <<>>)
    IN  table(TextLine("header",
                  <<"**Workspaces** (", ToString(Len(workspaces)), " total)\n">>),
              <<"No workspaces found.">>,
              << <<"ID">>, <<"Name">>, <<"Description">> >>,
              << <<"----">>, <<"------">>, <<"-------------">> >>,
              [i \in 1..Len(workspaces) |-> workspaceRow(workspaces[i])])

folderRow(folder) ==
    Line("row", <<folder.id, escapeMarkdown(SliceOrDash(folder.name, TitleLength)),
                  OrElse(folder.parentFolderId, <<"Root">>)>>)

formatLibraryFoldersResponse(res) ==
    LET folders == OrElse(res.folders, <<>>)
    IN  table(TextLine("header",
                  <<"**Library Folders** (", ToString(Len(folders)), " total)\n">>),
              <<"No library folders found.">>,
              << <<"ID">>, <<"Name">>, <<"Parent Folder">> >>,
              << <<"----">>, <<"------">>, <<"---------------">> >>,
              [i \in 1..Len(folders) |-> folderRow(folders[i])])

(* String(n).padStart(2, '0') for n >= 0 *)
padStart2(n) == IF n < 10 THEN <<"0", ToString(n)>> ELSE <<ToString(n)>>

(* Mutant: the seconds are not padded *)
fmt_Unpadded(s) == <<ToString(MathFloor(s, 60)), ":", ToString(s % 60)>>

(* fmt: `${Math.floor(s / 60)}:${String(s % 60).padStart(2, '0')}` *)
fmt(s) == <<ToString(MathFloor(s, 60)), ":">> \o padStart2(s % 60)

(* Mutant: a note of exactly the cut length gets the ellipsis too *)
folderCallRow_EllipsisAtLength(call) ==
    LET title == escapeMarkdown(SliceOrDash(call.title, TitleLength))
        addedOn == IF TruthyText(call.created) THEN toLocaleDateString(call.created[1]) ELSE Dash
        snippet == IF call.snippet # None /\ call.snippet[1].fromSec # None
                      /\ call.snippet[1].toSec # None
                   THEN fmt(call.snippet[1].fromSec[1]) \o <<EnDash>>
                            \o fmt(call.snippet[1].toSec[1])
                   ELSE Dash
        note == IF TruthyText(call.note)
                THEN escapeMarkdown(StrSlice(call.note[1], 0, NoteLength))
                         \o (IF Len(call.note[1]) >= NoteLength THEN <<Ellipsis>> ELSE <<>>)
                ELSE Dash
    IN  Line("row", <<call.id, title, OrElse(call.addedBy, Dash), addedOn, snippet, note>>)

folderCallRow(call) ==
    LET title == escapeMarkdown(SliceOrDash(call.title, TitleLength))
        addedOn == IF TruthyText(call.created) THEN toLocaleDateString(call.created[1]) ELSE Dash
        snippet == IF call.snippet # None /\ call.snippet[1].fromSec # None
                      /\ call.snippet[1].toSec # None
                   THEN fmt(call.snippet[1].fromSec[1]) \o <<EnDash>>
                            \o fmt(call.snippet[1].toSec[1])
                   ELSE Dash
        note == IF TruthyText(call.note)
                THEN escapeMarkdown(StrSlice(call.note[1], 0, NoteLength))
                         \o (IF Len(call.note[1]) > NoteLength THEN <<Ellipsis>> ELSE <<>>)
                ELSE Dash
    IN  Line("row", <<call.id, title, OrElse(call.addedBy, Dash), addedOn, snippet, note>>)

formatLibraryFolderCallsResponse(res) ==
    LET calls == OrElse(res.calls, <<>>)
        folderName == escapeMarkdown(OrElse(res.name, <<"Unknown Folder">>))
        top == <<TextLine("title", <<"## Library Folder: ">> \o folderName \o <<"\n">>)>>
               \o (IF TruthyText(res.id)
                   THEN <<TextLine("folderId", <<"**Folder ID:** ">> \o res.id[1])>>
                   ELSE <<>>)
        heading == TextLine("header", <<"**Calls:** ", ToString(Len(calls)), "\n">>)
    IN  top \o table(heading, <<"No calls in this folder.">>,
                     << <<"Call ID">>, <<"Title">>, <<"Added By">>, <<"Added On">>,
                        <<"Snippet">>, <<"Note">> >>,
                     << <<"---------">>, <<"-------">>, <<"----------">>, <<"----------">>,
                        <<"---------">>, <<"------">> >>,
                     [i \in 1..Len(calls) |-> folderCallRow(calls[i])])

----------------------------------------------------------------------------
(* Inputs of the table formatters *)

MaxRows == 2

(* a text two characters longer than n whose characters n and n + 1 are pipes *)
LongText(n) == [i \in 1..(n + 2) |-> IF i \in {n, n + 1} THEN "|" ELSE "a"]

Unsafe == <<"a", "\n", "|", "\r", "\n", "b">>

Durations == {0, 29, 30, 89, 1800, 3600}

Cursors == {None, Some(<<"c", "1">>), Some(<<>>)}

Records == {[totalRecords |-> 3, cursor |-> c] : c \in Cursors}

ListsOf(items) == UNION {[1..n -> items] : n \in 0..MaxRows}

PlainCall ==
    [id |-> GoodId, title |-> Some(<<"a">>), started |-> Some(NewYear),
     duration |-> Some(1800), scope |-> Some(<<"External">>)]

SampleCalls ==
    {[PlainCall EXCEPT !.title = t] :
        t \in {None, Some(Unsafe), Some(LongText(TitleLength))}}
    \cup {[PlainCall EXCEPT !.duration = d] : d \in {None} \cup {Some(n) : n \in Durations}}
    \cup {[PlainCall EXCEPT !.started = None, !.scope = None]}

CallsResponses ==
    {[records |-> r, calls |-> cs] : r \in Records, cs \in ListsOf(SampleCalls)}

CallDetailsResponses ==
    {[records |-> r, calls |-> [i \in 1..Len(cs) |-> [metaData |-> cs[i]]]] :
        r \in Records, cs \in ListsOf(SampleCalls)}

PlainUser ==
    [id |-> GoodId, firstName |-> Some(<<"A">>), lastName |-> Some(<<"B">>),
     emailAddress |-> Some(<<"a@b.c">>), title |-> Some(<<"t">>), active |-> Some(TRUE)]

SampleUsers ==
    {[PlainUser EXCEPT !.firstName = f, !.lastName = l] :
        f \in {None, Some(<<>>), Some(<<"|">>)},
        l \in {None, Some(<<"\n", "\r">>)}}
    \cup {[PlainUser EXCEPT !.title = t] : t \in {None, Some(LongText(UserTitleLength))}}
    \cup {[PlainUser EXCEPT !.emailAddress = None, !.active = None],
          [PlainUser EXCEPT !.active = Some(FALSE)]}

UsersResponses ==
    {[records |-> r, users |-> us] : r \in Records, us \in ListsOf(SampleUsers)}

Keywords(n) == [i \in 1..n |-> <<"k", ToString(i)>>]

PlainTracker ==
    [trackerName |-> Some(<<"n">>), affiliation |-> Some(<<"Anyone">>),
     saidAt |-> Some(<<"Anywhere">>),
     languageKeywords |-> Some(<<[keywords |-> Some(Keywords(2))]>>)]

SampleTrackers ==
    {[PlainTracker EXCEPT !.trackerName = t] :
        t \in {None, Some(Unsafe), Some(LongText(NameLength))}}
    \cup {[PlainTracker EXCEPT !.languageKeywords = k] :
            k \in {None, Some(<<>>), Some(<<[keywords |-> None]>>),
                   Some(<<[keywords |-> Some(<< <<"|">> >>)]>>),
                   Some(<<[keywords |-> Some(Keywords(MaxKeywords - 1))],
                          [keywords |-> Some(Keywords(2))]>>)}}
    \cup {[PlainTracker EXCEPT !.affiliation = None, !.saidAt = None], PlainTracker}

TrackersResponses ==
    {[keywordTrackers |-> ts] : ts \in {None} \cup {Some(l) : l \in ListsOf(SampleTrackers)}}

SampleWorkspaces ==
    {[id |-> GoodId, name |-> n, description |-> d] :
        n \in {None, Some(Unsafe), Some(LongText(NameLength))},
        d \in {None, Some(LongText(DescriptionLength))}}

WorkspacesResponses ==
    {[workspaces |-> ws] : ws \in {None} \cup {Some(l) : l \in ListsOf(SampleWorkspaces)}}

SampleFolders ==
    {[id |-> GoodId, name |-> n, parentFolderId |-> p] :
        n \in {None, Some(Unsafe), Some(LongText(TitleLength))},
        p \in {None, Some(<<"9">>)}}

LibraryFoldersResponses ==
    {[folders |-> fs] : fs \in {None} \cup {Some(l) : l \in ListsOf(SampleFolders)}}

PlainFolderCall ==
    [id |-> GoodId, title |-> Some(<<"a">>), addedBy |-> Some(<<"9">>),
     created |-> Some(NewYear), snippet |-> Some([fromSec |-> Some(305), toSec |-> Some(540)]),
     note |-> Some(<<"n">>)]

SampleFolderCalls ==
    {[PlainFolderCall EXCEPT !.note = n] :
        n \in {None, Some(<<>>), Some(Unsafe),
               Some(LongText(NoteLength - 2)), Some(LongText(NoteLength))}}
    \cup {[PlainFolderCall EXCEPT !.title = t] : t \in {Some(LongText(TitleLength))}}
    \cup {[PlainFolderCall EXCEPT !.snippet = s] :
            s \in {None, Some([fromSec |-> Some(0), toSec |-> None]),
                   Some([fromSec |-> Some(0), toSec |-> Some(59)]),
                   Some([fromSec |-> Some(600), toSec |-> Some(3725)])}}
    \cup {[PlainFolderCall EXCEPT !.title = None, !.addedBy = None, !.created = None]}

LibraryFolderCallsResponses ==
    {[id |-> f.id, name |-> f.name, calls |-> cs] :
        f \in {[id |-> None, name |-> None], [id |-> Some(<<"5">>), name |-> Some(<<"F", "|">>)]},
        cs \in {None} \cup {Some(l) : l \in ListsOf(SampleFolderCalls)}}

----------------------------------------------------------------------------
(* One call of a table formatter *)

InitTables == ApplyIdle /\ HandlerIdle /\ FormatterIdle

FormatCalls(res) ==
    /\ applied = ""
    /\ applied' = "formatCallsResponse"
    /\ given' = res
    /\ result' = formatCallsResponse(res)
    /\ UNCHANGED <<fvars, hvars>>

FormatCallDetails(res) ==
    /\ applied = ""
    /\ applied' = "formatCallDetailsResponse"
    /\ given' = res
    /\ result' = formatCallDetailsResponse(res)
    /\ UNCHANGED <<fvars, hvars>>

FormatUsers(res) ==
    /\ applied = ""
    /\ applied' = "formatUsersResponse"
    /\ given' = res
    /\ result' = formatUsersResponse(res)
    /\ UNCHANGED <<fvars, hvars>>

FormatTrackers(res) ==
    /\ applied = ""
    /\ applied' = "formatTrackersResponse"
    /\ given' = res
    /\ result' = formatTrackersResponse(res)
    /\ UNCHANGED <<fvars, hvars>>

FormatWorkspaces(res) ==
    /\ applied = ""
    /\ applied' = "formatWorkspacesResponse"
    /\ given' = res
    /\ result' = formatWorkspacesResponse(res)
    /\ UNCHANGED <<fvars, hvars>>

FormatLibraryFolders(res) ==
    /\ applied = ""
    /\ applied' = "formatLibraryFoldersResponse"
    /\ given' = res
    /\ result' = formatLibraryFoldersResponse(res)
    /\ UNCHANGED <<fvars, hvars>>

FormatLibraryFolderCalls(res) ==
    /\ applied = ""
    /\ applied' = "formatLibraryFolderCallsResponse"
    /\ given' = res
    /\ result' = formatLibraryFolderCallsResponse(res)
    /\ UNCHANGED <<fvars, hvars>>

NextTables ==
    \/ \E r \in CallsResponses : FormatCalls(r)
    \/ \E r \in CallDetailsResponses : FormatCallDetails(r)
    \/ \E r \in UsersResponses : FormatUsers(r)
    \/ \E r \in TrackersResponses : FormatTrackers(r)
    \/ \E r \in WorkspacesResponses : FormatWorkspaces(r)
    \/ \E r \in LibraryFoldersResponses : FormatLibraryFolders(r)
    \/ \E r \in LibraryFolderCallsResponses : FormatLibraryFolderCalls(r)

SpecTables == InitTables /\ [][NextTables]_vars

----------------------------------------------------------------------------
(* src/index.ts: the ReadResourceRequestSchema handler.  The remote end     *)
(* holds a list of users and serves it in pages of a fixed size; a page     *)
(* carries a cursor when more users follow.                                 *)

MaxUsers == 3

RemoteUser(k) == [PlainUser EXCEPT !.id = <<ToString(k)>>]

(* lists of distinct users *)
RemoteUserLists ==
    {us \in UNION {[1..n -> {RemoteUser(k) : k \in 1..(MaxUsers + 1)}] : n \in 0..MaxUsers} :
        \A i, j \in 1..Len(us) : us[i] = us[j] => i = j}

Remotes == {[users |-> us, pageSize |-> p] : us \in RemoteUserLists, p \in 1..MaxUsers}

(* the answer to GET /users without a cursor *)
firstPage(remote) ==
    [records |-> [totalRecords |-> Len(remote.users),
                  cursor |-> IF Len(remote.users) > remote.pageSize
                             THEN Some(<<"p", "2">>) ELSE None],
     users |-> SubSeq(remote.users, 1, Min(remote.pageSize, Len(remote.users)))]

(* what the handler's promise settles with: the contents it returns or the  *)
(* error it throws                                                          *)
readResource(uri, remote, reachable) ==
    IF uri = "gong://users"
    THEN IF reachable
         THEN [contents |-> Some(<<[uri |-> uri, mimeType |-> "text/markdown",
                                   text |-> formatUsersResponse(firstPage(remote))]>>),
               thrown |-> None]
         ELSE [contents |-> None, thrown |-> Some(<<"fetch failed">>)]
    ELSE [contents |-> None, thrown |-> Some(<<"Unknown resource: ", uri>>)]

InitResource == ApplyIdle /\ HandlerIdle /\ FormatterIdle

ReadResource(uri, remote, reachable) ==
    /\ applied = ""
    /\ applied' = uri
    /\ given' = remote
    /\ result' = readResource(uri, remote, reachable)
    /\ UNCHANGED <<fvars, hvars>>

NextResource ==
    \E uri \in {"gong://users", "gong://calls"} : \E remote \in Remotes :
        \E reachable \in BOOLEAN : ReadResource(uri, remote, reachable)

SpecResource == InitResource /\ [][NextResource]_vars

----------------------------------------------------------------------------
(* Properties of formatCallTranscript *)

ReqOffset(opts) == OrElse(opts[1].offset, DefaultOffset)
ReqMaxLength(opts) == OrElse(opts[1].maxLength, DefaultMaxLength)
FullLength == Len(fullText(transcript, parties))
NonEmpty == Len(transcript.transcript) >= 1

(* C1: for a transcript with at least one monologue of full length L and a  *)
(* request (o, m) with o + m < L, the window reports upper bound o + m, and *)
(* its slice followed by the slice of the continuation (o + m, m) is        *)
(* fullText[o .. min(o + 2m, L)): nothing missing, nothing duplicated.      *)
WindowRoundTrip ==
    (prevOptions # None /\ NonEmpty) =>
        LET o == ReqOffset(prevOptions)
            m == ReqMaxLength(prevOptions)
            L == FullLength
            upper == IF o + 2 * m < L THEN o + 2 * m ELSE L
        IN  (o + m < L) =>
                /\ Has(prevOutput[1], "status")
                /\ StatusOf(prevOutput[1]).to = o + m
                /\ ReqOffset(options) = o + m /\ ReqMaxLength(options) = m
                /\ SliceOf(prevOutput[1]) \o SliceOf(output[1])
                      = SubSeq(fullText(transcript, parties), o + 1, upper)

(* A window in the middle of the text whose continuation is cut by the end *)
WindowRoundTripWitness ==
    /\ prevOptions # None /\ NonEmpty
    /\ ReqOffset(prevOptions) > 0
    /\ ReqOffset(prevOptions) + ReqMaxLength(prevOptions) < FullLength
    /\ ReqOffset(prevOptions) + 2 * ReqMaxLength(prevOptions) > FullLength
    /\ Len(SliceOf(prevOutput[1])) = ReqMaxLength(prevOptions)
    /\ Len(SliceOf(output[1])) \in 1..(ReqMaxLength(prevOptions) - 1)

(* C2: whenever the status line "Showing characters A-B of T total" is      *)
(* emitted, A = offset + 1, T is the length of the full text and            *)
(* B = min(offset + maxLength, T), so B never exceeds T.                    *)
StatusLineBounds ==
    (output # None /\ Has(output[1], "status")) =>
        LET o == ReqOffset(options)
            m == ReqMaxLength(options)
            st == StatusOf(output[1])
        IN  /\ Len(LinesOf(output[1], "status")) = 1
            /\ st.from = o + 1
            /\ st.total = FullLength
            /\ st.to = (IF o + m < FullLength THEN o + m ELSE FullLength)
            /\ st.to <= st.total

(* A status line whose upper bound is clamped to the total length *)
StatusLineBoundsWitness ==
    /\ output # None /\ Has(output[1], "status")
    /\ ReqOffset(options) + ReqMaxLength(options) > FullLength
    /\ ReqOffset(options) < FullLength
    /\ StatusOf(output[1]).to = FullLength

(* C3: for a transcript with at least one monologue the truncated-start     *)
(* marker is emitted iff offset > 0, the truncated-end marker and the       *)
(* next-offset hint (offset + maxLength) iff offset + maxLength < total,    *)
(* the status line iff one of the two holds, and otherwise the output has   *)
(* no status line and no marker at all.                                     *)
TruncationMarkers ==
    (output # None /\ NonEmpty) =>
        LET o == ReqOffset(options)
            m == ReqMaxLength(options)
            out == output[1]
        IN  /\ Has(out, "truncatedStart") <=> (o > 0)
            /\ Has(out, "truncated") <=> (o + m < FullLength)
            /\ Has(out, "hint") <=> (o + m < FullLength)
            /\ Has(out, "hint") => HintOf(out) = o + m
            /\ Has(out, "status") <=> (o > 0 \/ o + m < FullLength)
            /\ (~(o > 0) /\ ~(o + m < FullLength)) =>
                    /\ Len(out) = 2
                    /\ out[1].kind = "heading" /\ out[2].kind = "slice"

(* The exact fit: offset 0 and maxLength = totalLength, plain output *)
TruncationMarkersWitness ==
    /\ output # None /\ NonEmpty
    /\ ReqOffset(options) = 0
    /\ ReqMaxLength(options) = FullLength
    /\ Len(output[1]) = 2
    /\ SliceOf(output[1]) = fullText(transcript, parties)

(* C4: a caller that starts at offset 0 with a fixed maxLength and follows  *)
(* the next-offset hint receives a response without the truncated-end       *)
(* marker after finitely many requests: every request but the last adds a   *)
(* non-empty slice to what was received, which stays a prefix of the full   *)
(* text, so at most totalLength requests are made; every window carries a   *)
(* non-empty slice, and at the end the slices in order are the full text.   *)
PagingSafe ==
    /\ \A i \in 1..Len(windows) :
          Has(windows[i], "slice") => SliceOf(windows[i]) # <<>>
    /\ \A i \in 1..Len(windows) :
          Has(windows[i], "truncated") <=> (i < Len(windows) \/ paging = "more")
    /\ Len(received) <= FullLength
    /\ received = SubSeq(fullText(transcript, parties), 1, Len(received))
    /\ paging = "done" =>
          /\ windows # <<>>
          /\ ~Has(windows[Len(windows)], "truncated")
          /\ received = fullText(transcript, parties)

PagingProgress ==
    /\ paging = "more"
    /\ Len(windows') = Len(windows) + 1
    /\ paging' = "done" \/ Len(received') > Len(received)

----------------------------------------------------------------------------
(* Properties of the tool-call handler *)

Returned == response # None
IsError == response # None /\ response[1].isError
ResponseText == response[1].content[1].text
ErrorText(message) == <<"Error: ">> \o message
ReturnedError(message) == IsError /\ ResponseText = ErrorText(message)
ValidationPrefix == "Validation error: "

(* the request names a registered tool and passes its request schema *)
HasSchema == name \in ToolNames /\ ToolFields(name) # <<>>
ViolatesSchema == HasSchema /\ SchemaIssues(name, ParseInput(name, args)) # <<>>
RequestIsValid == name \in ToolNames /\ ~ViolatesSchema

(* what the remote end answered to an operation *)
Answered(op) == op.answer # None
TransportFailed(op) == Answered(op) /\ op.answer[1].kind = "reject"
NonSuccessStatus(op) == Answered(op) /\ op.answer[1].kind = "response" /\ ~op.answer[1].ok
NotJson(op) == Answered(op) /\ op.answer[1].ok /\ op.answer[1].json = None
SchemaViolatingPayload(op) ==
    /\ Answered(op) /\ op.answer[1].ok /\ op.answer[1].json # None
    /\ ResponseIssues(op.parser, op.answer[1].json[1]) # <<>>
AnswerFails(op) ==
    TransportFailed(op) \/ NonSuccessStatus(op) \/ NotJson(op) \/ SchemaViolatingPayload(op)
AnswerSucceeds(op) == Answered(op) /\ ~AnswerFails(op)

(* the operation succeeded with an empty list *)
EmptyList(op) ==
    /\ AnswerSucceeds(op)
    /\ op.answer[1].json[1].items # None
    /\ op.answer[1].json[1].items[1] = <<>>

(* no other operation of the invocation was rejected before operation i *)
SettledAt(i) == CHOOSE k \in 1..Len(settled) : settled[k] = i
FirstRejected(i) ==
    /\ ops[i].state = "rejected"
    /\ \A j \in 1..Len(ops) :
          (j # i /\ ops[j].state = "rejected") => SettledAt(i) < SettledAt(j)

RequestedCallId == args[1]["callId"].s

(* C5: no exception leaves the handler; an invocation whose operations have *)
(* all settled has returned; every response is one text item; a failure     *)
(* (unknown tool, invalid arguments, transport failure, non-success status, *)
(* malformed or schema-violating payload, empty result of a by-id fetch) is *)
(* returned as 'Error: <message>' with isError, and a response without      *)
(* isError is returned only for a valid request whose every operation was   *)
(* answered successfully, and carries the formatter's output.               *)
HandlerTotal ==
    /\ escaped = None
    /\ (pc = "done") => Returned
    /\ (pc # "idle" /\ \A i \in 1..Len(ops) : ops[i].state # "pending") => pc = "done"
    /\ Returned =>
          /\ Len(response[1].content) = 1
          /\ response[1].content[1].type = "text"
          /\ IsError => (Len(ResponseText) >= 2 /\ ResponseText[1] = "Error: ")
          /\ (~RequestIsValid \/ \E i \in 1..Len(ops) : AnswerFails(ops[i])) => IsError
          /\ ~IsError =>
                /\ RequestIsValid
                /\ Len(ops) >= 1
                /\ \A i \in 1..Len(ops) : AnswerSucceeds(ops[i])
                /\ ~EmptyList(ops[1]) \/ name \notin {"get_call_summary", "get_call_transcript"}
                /\ \A k \in 1..Len(ResponseText) :
                      ResponseText[k].kind \in
                        {"formatted", "heading", "empty", "status", "truncatedStart",
                         "slice", "truncated", "hint"}

(* the details fetch answered with a body that is not JSON while the        *)
(* transcript fetch was still in flight                                     *)
HandlerTotalWitness ==
    /\ pc = "done" /\ Len(ops) = 2
    /\ ops[1].state = "pending"
    /\ NotJson(ops[2])
    /\ IsError

(* C6: a request that violates its tool's request schema sends no HTTP      *)
(* request and returns an error whose message starts 'Validation error:'.   *)
ValidationFirst ==
    (pc # "idle" /\ ViolatesSchema) =>
        /\ http = <<>>
        /\ ops = <<>>
        /\ pc = "done"
        /\ IsError
        /\ ResponseText[1] = "Error: "
        /\ ResponseText[2] = ValidationPrefix

(* list_calls with well-formed dates in the wrong order *)
ValidationFirstWitness ==
    /\ pc = "done" /\ name = "list_calls" /\ args # None
    /\ DOMAIN args[1] = {"fromDateTime", "toDateTime"}
    /\ args[1]["fromDateTime"] = Str(NewYear)
    /\ args[1]["toDateTime"] = Str(NewYearEve)
    /\ http = <<>>
    /\ ResponseText = <<"Error: ", ValidationPrefix, RangeMessage>>

(* C7: a valid get_call_transcript request has sent the transcript request  *)
(* and the call-details request for its callId by the time the handler      *)
(* first waits, both still pending; a response without isError is returned  *)
(* only with both operations fulfilled and is the transcript formatted with *)
(* the parties of the details; once either is rejected, in any order of the *)
(* two completions, the response is an error.                               *)
FanOutFanIn ==
    (name = "get_call_transcript" /\ validated # None) =>
        /\ http = << [method |-> "POST", endpoint |-> <<"/calls/transcript">>,
                      callIds |-> <<RequestedCallId>>],
                     [method |-> "POST", endpoint |-> <<"/calls/extensive">>,
                      callIds |-> <<RequestedCallId>>] >>
        /\ Len(ops) = 2
        /\ settled = <<>> =>
              (pc = "awaiting" /\ ops[1].state = "pending" /\ ops[2].state = "pending")
        /\ (Returned /\ ~IsError) =>
              /\ ops[1].state = "fulfilled" /\ ops[2].state = "fulfilled"
              /\ ResponseText =
                    formatCallTranscript(
                        [callId |-> ops[1].value[1].items[1][1].id[1],
                         transcript |-> ops[1].value[1].items[1][1].transcript],
                        IF ops[2].value[1].items[1] = <<>> THEN None
                        ELSE ops[2].value[1].items[1][1].parties,
                        [maxLength |-> validated[1]["maxLength"],
                         offset |-> validated[1]["offset"]])
        /\ (\E i \in 1..2 : ops[i].state = "rejected") =>
              (IsError /\ ResponseText[1] = "Error: ")

(* the details arrived first, then the transcript fetch failed *)
FanOutFanInWitness ==
    /\ name = "get_call_transcript" /\ validated # None
    /\ settled = <<2, 1>>
    /\ ops[2].state = "fulfilled" /\ ops[2].value[1].items[1] # <<>>
    /\ ops[1].state = "rejected"
    /\ IsError

(* C8 as stated: get_call_summary whose details fetch succeeds with an      *)
(* empty calls list returns 'Call not found: <callId>', and an invocation   *)
(* of get_call_transcript whose transcript fetch succeeds with an empty     *)
(* callTranscripts list returns 'Transcript not found: <callId>'.           *)
NotFoundReported ==
    /\ (name = "get_call_summary" /\ Len(ops) = 1 /\ EmptyList(ops[1])) =>
          ReturnedError(<<"Call not found: ">> \o RequestedCallId)
    /\ (name = "get_call_transcript" /\ Len(ops) = 2 /\ EmptyList(ops[1]) /\ pc = "done") =>
          ReturnedError(<<"Transcript not found: ">> \o RequestedCallId)

(* C8, amended: get_call_summary whose details fetch succeeds with an empty *)
(* calls list returns 'Call not found: <callId>'; get_call_transcript whose *)
(* transcript fetch succeeds with an empty callTranscripts list and whose   *)
(* details fetch succeeds too returns 'Transcript not found: <callId>'; in  *)
(* both cases the response has isError and no formatter output.             *)
NotFoundReportedWhenFetchesSucceed ==
    /\ (name = "get_call_summary" /\ Len(ops) = 1 /\ EmptyList(ops[1])) =>
          ReturnedError(<<"Call not found: ">> \o RequestedCallId)
    /\ (name = "get_call_transcript" /\ Len(ops) = 2 /\ EmptyList(ops[1])
          /\ AnswerSucceeds(ops[2])) =>
          ReturnedError(<<"Transcript not found: ">> \o RequestedCallId)

(* no transcript for the call although its details exist *)
NotFoundReportedWitness ==
    /\ name = "get_call_transcript" /\ Len(ops) = 2
    /\ EmptyList(ops[1])
    /\ AnswerSucceeds(ops[2]) /\ ~EmptyList(ops[2])
    /\ ReturnedError(<<"Transcript not found: ">> \o GoodId)

(* the message of request() / get() for a non-success answer *)
ApiErrorMessage(o) ==
    <<"Gong API error: ", ToString(o.status), " ", o.statusText, " - ", o.text>>

OneRequestEach ==
    /\ Len(http) = Len(ops)
    /\ \A i \in 1..Len(ops) :
          http[i].method = ops[i].method /\ http[i].endpoint = ops[i].endpoint

ClientFailsWith(op, message) ==
    /\ op.state = "rejected"
    /\ op.error[1].type = "Error"
    /\ op.error[1].message = message

(* C9 as stated: an operation answered with a non-success status is         *)
(* rejected with 'Gong API error: <status> <statusText> - <body>', the      *)
(* invocation returns 'Error: <that message>', and every operation has sent *)
(* exactly one HTTP request.                                                *)
ApiErrorSurfaced ==
    /\ OneRequestEach
    /\ \A i \in 1..Len(ops) :
          NonSuccessStatus(ops[i]) =>
              /\ ClientFailsWith(ops[i], ApiErrorMessage(ops[i].answer[1]))
              /\ ReturnedError(ApiErrorMessage(ops[i].answer[1]))

(* C9, amended: an operation answered with a non-success status is rejected *)
(* with 'Gong API error: <status> <statusText> - <body>'; the invocation    *)
(* returns 'Error: <that message>' when no other operation of the           *)
(* invocation was rejected before it; every operation has sent exactly one  *)
(* HTTP request, whatever its answer.                                       *)
ApiErrorSurfacedWhenFirst ==
    /\ OneRequestEach
    /\ \A i \in 1..Len(ops) :
          NonSuccessStatus(ops[i]) =>
              /\ ClientFailsWith(ops[i], ApiErrorMessage(ops[i].answer[1]))
              /\ FirstRejected(i) => ReturnedError(ApiErrorMessage(ops[i].answer[1]))

(* the details fetch is answered 404, then the transcript connection fails *)
ApiErrorSurfacedWitness ==
    /\ name = "get_call_transcript" /\ settled = <<2, 1>>
    /\ NonSuccessStatus(ops[2]) /\ ops[2].answer[1].status = 404
    /\ TransportFailed(ops[1])
    /\ ResponseText = <<"Error: ", "Gong API error: ", "404", " ", "Not Found", " - ", "">>

(* C10 as stated: a success answer whose payload violates the response      *)
(* schema is returned as an error whose message does not start 'Validation  *)
(* error:', and a 'Validation error:' message is returned only by an        *)
(* invocation that sent no HTTP request.                                    *)
ParseErrorsGeneric ==
    /\ \A i \in 1..Len(ops) :
          (SchemaViolatingPayload(ops[i]) /\ FirstRejected(i)) =>
              (IsError /\ ResponseText[2] # ValidationPrefix)
    /\ (IsError /\ ResponseText[2] = ValidationPrefix) => http = <<>>

----------------------------------------------------------------------------
(* Properties of the request schemas *)

GivenKey(key) == Get(given, key)
HasGiven(key) == key \in DOMAIN given

(* the sample timestamps that denote an instant, in minutes from NewYear *)
Timeline ==
    (NewYearEve :> -60) @@ (NewYear :> 0) @@ (NewYearAbroad :> 0) @@ (NewYearWest :> 60)
        @@ (LeapDay :> 84960)

StrictlyBefore(a, b) ==
    a \in DOMAIN Timeline /\ b \in DOMAIN Timeline /\ Timeline[a] < Timeline[b]

WellFormedDate(s) == s # <<"x">>

RangeRejected ==
    /\ ~result.success
    /\ \E i \in 1..Len(result.issues) : result.issues[i].message = RangeMessage

(* C11: list_calls and search_calls accept a request with well-formed       *)
(* fromDateTime and toDateTime exactly when from is an instant strictly     *)
(* before to, whatever the timezone offsets; otherwise (equal, later, or    *)
(* not a date of the calendar) the parse fails with the single issue        *)
(* 'fromDateTime must be before toDateTime'; with one or neither field the  *)
(* rule rejects nothing.                                                    *)
DateRangeRule ==
    (applied \in DateRangeTools) =>
        IF HasGiven("fromDateTime") /\ HasGiven("toDateTime")
        THEN (WellFormedDate(given["fromDateTime"].s) /\ WellFormedDate(given["toDateTime"].s)) =>
                /\ result.success <=>
                      StrictlyBefore(given["fromDateTime"].s, given["toDateTime"].s)
                /\ ~result.success => result.issues = <<Issue(<<>>, RangeMessage)>>
        ELSE /\ ~RangeRejected
             /\ (\A k \in DOMAIN given : WellFormedDate(given[k].s)) => result.success

(* the same instant written with two offsets, in search_calls *)
DateRangeRuleWitness ==
    /\ applied = "search_calls"
    /\ HasGiven("fromDateTime") /\ HasGiven("toDateTime")
    /\ given["fromDateTime"].s = NewYearAbroad
    /\ given["toDateTime"].s = NewYear
    /\ result.issues = <<Issue(<<>>, RangeMessage)>>

IdKey == CHOOSE k \in DOMAIN given : TRUE
AppliedToId == \E f \in IdFields : f[1] = applied /\ DOMAIN given = {f[2]}
DecimalDigits == {"0", "1", "2", "3", "4", "5", "6", "7", "8", "9"}

(* C13: a string given as callId, userId, workspaceId or folderId is        *)
(* accepted exactly when it has 1 to 20 characters, all decimal digits, and *)
(* the parsed value is then the string itself.                              *)
IdValidation ==
    AppliedToId =>
        LET s == given[IdKey].s
        IN  /\ result.success <=>
                  (Len(s) >= 1 /\ Len(s) <= 20 /\ \A i \in 1..Len(s) : s[i] \in DecimalDigits)
            /\ result.success => result.data[1][IdKey] = Some(s)

(* an id of exactly 20 digits *)
IdValidationWitness ==
    /\ AppliedToId
    /\ Len(given[IdKey].s) = 20
    /\ result.success
    /\ result.data[1][IdKey] = Some(given[IdKey].s)

----------------------------------------------------------------------------
(* Properties of get_call_transcript's request *)

ArgOf(key) == IF args = None THEN None ELSE Get(args[1], key)

IntegerAtLeast(v, low) == v.t = "number" /\ v.integer /\ v.n >= low
IntegerIn(v, low, high) == IntegerAtLeast(v, low) /\ v.n <= high

(* the value of a numeric key after parsing: the given one or the default *)
Normalised(key, default) == IF ArgOf(key) = None THEN default ELSE ArgOf(key)[1].n

(* C12: a get_call_transcript request with a valid callId is accepted       *)
(* exactly when maxLength is absent or an integer in [1000, 100000] and     *)
(* offset is absent or an integer >= 0; the parsed request then carries the *)
(* given values, 10000 for an absent maxLength and 0 for an absent offset,  *)
(* and the transcript returned is the one formatted with these values.      *)
TranscriptRequestNormalised ==
    (name = "get_call_transcript" /\ pc # "idle" /\ ArgOf("callId") = Some(Str(GoodId))) =>
        /\ (validated # None) <=>
              /\ ArgOf("maxLength") = None \/ IntegerIn(ArgOf("maxLength")[1], 1000, 100000)
              /\ ArgOf("offset") = None \/ IntegerAtLeast(ArgOf("offset")[1], 0)
        /\ validated # None =>
              /\ validated[1]["maxLength"] = Some(Normalised("maxLength", 10000))
              /\ validated[1]["offset"] = Some(Normalised("offset", 0))
        /\ (Returned /\ ~IsError) =>
              ResponseText =
                 formatCallTranscript(
                    [callId |-> ops[1].value[1].items[1][1].id[1],
                     transcript |-> ops[1].value[1].items[1][1].transcript],
                    IF ops[2].value[1].items[1] = <<>> THEN None
                    ELSE ops[2].value[1].items[1][1].parties,
                    [maxLength |-> Some(Normalised("maxLength", 10000)),
                     offset |-> Some(Normalised("offset", 0))])

(* the largest maxLength and a positive offset, with the window starting at *)
(* that offset                                                              *)
TranscriptRequestNormalisedWitness ==
    /\ name = "get_call_transcript"
    /\ ArgOf("maxLength") = Some(Num(100000))
    /\ ArgOf("offset") = Some(Num(5))
    /\ Returned /\ ~IsError
    /\ Has(ResponseText, "status")
    /\ StatusOf(ResponseText).from = 6

----------------------------------------------------------------------------
(* Properties of the request bodies *)

SearchBody == bodies[1][1]
IsSearch == name \in {"search_calls", "search_users"} /\ validated # None
GivenCursor == ArgOf("cursor")

(* C14: the body of every searchCalls and searchUsers request has a filter  *)
(* object without a 'cursor' key; a cursor given in the request is the      *)
(* top-level key 'cursor' of the body with the given value, and without one *)
(* the body has no 'cursor' key.                                            *)
CursorTopLevel ==
    IsSearch =>
        /\ Len(bodies) = 1 /\ bodies[1] # None
        /\ "filter" \in DOMAIN SearchBody
        /\ "cursor" \notin DOMAIN SearchBody["filter"]
        /\ IF GivenCursor # None
           THEN "cursor" \in DOMAIN SearchBody /\ SearchBody["cursor"] = GivenCursor[1].s
           ELSE "cursor" \notin DOMAIN SearchBody

(* searchUsers with a cursor and a user filter *)
CursorTopLevelWitness ==
    /\ IsSearch /\ name = "search_users"
    /\ GivenCursor = Some(Str(<<"c">>))
    /\ "userIds" \in DOMAIN SearchBody["filter"]
    /\ SearchBody["cursor"] = <<"c">>

ArrayKeys == IF name = "search_calls" THEN {"primaryUserIds", "callIds"} ELSE {"userIds"}
ScalarKeys ==
    IF name = "search_calls" THEN {"fromDateTime", "toDateTime", "workspaceId"}
    ELSE {"createdFromDateTime", "createdToDateTime"}
GivenArray(key) == [i \in 1..Len(ArgOf(key)[1].a) |-> ArgOf(key)[1].a[i].s]

DetailsBody == IF name = "get_call_summary" THEN bodies[1][1] ELSE bodies[2][1]

(* C16: the body of a searchCalls request has no contentSelector; the body  *)
(* getCallDetails sends for get_call_summary and get_call_transcript has a  *)
(* contentSelector whose exposedFields enable brief, outline, keyPoints,    *)
(* topics, pointsOfInterest, callOutcome and trackers under content,        *)
(* parties, publicComments under collaboration, and speakers and questions  *)
(* under interaction.                                                       *)
ContentSelectorRule ==
    /\ (name = "search_calls" /\ validated # None) =>
          "contentSelector" \notin DOMAIN SearchBody
    /\ (name \in {"get_call_summary", "get_call_transcript"} /\ validated # None) =>
          /\ "contentSelector" \in DOMAIN DetailsBody
          /\ LET fields == DetailsBody["contentSelector"]["exposedFields"]
             IN  /\ \A k \in {"brief", "outline", "keyPoints", "topics", "pointsOfInterest",
                              "callOutcome", "trackers"} :
                        k \in DOMAIN fields["content"] /\ fields["content"][k]
                 /\ fields["parties"]
                 /\ fields["collaboration"]["publicComments"]
                 /\ fields["interaction"]["speakers"]
                 /\ fields["interaction"]["questions"]

(* the details request of get_call_transcript, sent next to the transcript  *)
(* request                                                                  *)
ContentSelectorRuleWitness ==
    /\ name = "get_call_transcript" /\ validated # None
    /\ Len(bodies) = 2
    /\ DOMAIN bodies[1][1] = {"filter"}
    /\ DOMAIN bodies[2][1] = {"filter", "contentSelector"}
    /\ bodies[2][1]["filter"]["callIds"] = <<GoodId>>

----------------------------------------------------------------------------
(* Properties of the table formatters *)

PagedFormatters == {"formatCallsResponse", "formatCallDetailsResponse", "formatUsersResponse"}
CountedFormatters ==
    {"formatTrackersResponse", "formatWorkspacesResponse", "formatLibraryFoldersResponse"}

(* the collection handed to the formatter; an absent or null one is empty *)
GivenItems ==
    CASE applied \in {"formatCallsResponse", "formatCallDetailsResponse"} -> given.calls
      [] applied = "formatUsersResponse" -> given.users
      [] applied = "formatTrackersResponse" -> OrElse(given.keywordTrackers, <<>>)
      [] applied = "formatWorkspacesResponse" -> OrElse(given.workspaces, <<>>)
      [] applied = "formatLibraryFoldersResponse" -> OrElse(given.folders, <<>>)
      [] applied = "formatLibraryFolderCallsResponse" -> OrElse(given.calls, <<>>)

HeaderTitle ==
    CASE applied \in {"formatCallsResponse", "formatCallDetailsResponse"} -> "**Calls** ("
      [] applied = "formatUsersResponse" -> "**Users** ("
      [] applied = "formatTrackersResponse" -> "**Keyword Trackers** ("
      [] applied = "formatWorkspacesResponse" -> "**Workspaces** ("
      [] applied = "formatLibraryFoldersResponse" -> "**Library Folders** ("

HeaderTotal == IF applied \in PagedFormatters THEN given.records.totalRecords ELSE 0

EmptySentence ==
    CASE applied \in {"formatCallsResponse", "formatCallDetailsResponse"} -> "No calls found."
      [] applied = "formatUsersResponse" -> "No users found."
      [] applied = "formatTrackersResponse" -> "No trackers found."
      [] applied = "formatWorkspacesResponse" -> "No workspaces found."
      [] applied = "formatLibraryFoldersResponse" -> "No library folders found."

KindsOf(lines) == {lines[i].kind : i \in 1..Len(lines)}

(* C17: the calls, call-details, users, workspaces, library-folders and     *)
(* trackers formatters, given an empty collection (for workspaces, folders  *)
(* and trackers also an absent or null one), return exactly the header line *)
(* followed by the sentence 'No <items> found.': no table header row, no    *)
(* separator row and no data row.                                           *)
EmptyCollectionRendering ==
    (applied \in PagedFormatters \cup CountedFormatters /\ GivenItems = <<>>) =>
        /\ result = << [kind |-> "header",
                        cells |-> << <<HeaderTitle, ToString(HeaderTotal), " total)\n">> >>],
                       [kind |-> "sentence", cells |-> << <<EmptySentence>> >>] >>
        /\ KindsOf(result) \cap {"tableHeader", "separator", "row"} = {}

(* the workspaces formatter given a response without a workspaces list *)
EmptyCollectionRenderingWitness ==
    /\ applied = "formatWorkspacesResponse"
    /\ given.workspaces = None
    /\ Len(result) = 2
    /\ result[2].cells = << <<"No workspaces found.">> >>

CarriesCursor == given.records.cursor # None /\ given.records.cursor[1] # <<>>
LastLine == result[Len(result)]

(* C18 as stated: the output of formatCallsResponse,                        *)
(* formatCallDetailsResponse and formatUsersResponse ends with a note that  *)
(* has the cursor verbatim between backquotes whenever the records block    *)
(* carries a (non-empty) cursor, and has no such note when it carries none. *)
CursorExposed ==
    applied \in PagedFormatters =>
        /\ CarriesCursor =>
              /\ LastLine.kind = "cursorNote"
              /\ LET text == LastLine.cells[1]
                 IN  SubSeq(text, 2, Len(text)) =
                        <<Backquote>> \o given.records.cursor[1] \o <<Backquote>>
        /\ given.records.cursor = None => "cursorNote" \notin KindsOf(result)

(* the nearest whole minute of d seconds, a half rounding up *)
NearestMinute(d) == CHOOSE q \in 0..(d + 1) : 60 * q - 30 <= d /\ d < 60 * q + 30

GivenCall(i) ==
    IF applied = "formatCallDetailsResponse" THEN given.calls[i].metaData ELSE given.calls[i]

(* the rows of the table, in order *)
Rows == SelectSeq(result, LAMBDA l : l.kind = "row")

(* C20 as stated: in the tables of formatCallsResponse and                  *)
(* formatCallDetailsResponse the Duration cell of a call whose duration is  *)
(* an integer d >= 0 is the nearest whole minute of d followed by 'm', and  *)
(* the cell is '-' only when the duration is absent or null.                *)
DurationRendering ==
    applied \in {"formatCallsResponse", "formatCallDetailsResponse"} =>
        /\ Len(Rows) = Len(given.calls)
        /\ \A i \in 1..Len(Rows) :
              LET d == GivenCall(i).duration
                  cell == Rows[i].cells[4]
              IN  /\ (d # None /\ d[1] >= 0) => cell = <<ToString(NearestMinute(d[1])), "m">>
                  /\ cell = <<"-">> => d = None

(* the free texts of an item that go into a table cell: the cell's column,  *)
(* the source text when there is one, and the length it is cut to           *)
FreeText(cell, text, keep) == [cell |-> cell, text |-> text, keep |-> keep]

FreeTexts(item) ==
    CASE applied = "formatCallsResponse" -> {FreeText(2, item.title, TitleLength)}
      [] applied = "formatCallDetailsResponse" -> {FreeText(2, item.metaData.title, TitleLength)}
      [] applied = "formatUsersResponse" ->
            {FreeText(2, Some(userName(item)), Len(userName(item))),
             FreeText(4, item.title, UserTitleLength)}
      [] applied = "formatTrackersResponse" -> {FreeText(1, item.trackerName, NameLength)}
      [] applied = "formatWorkspacesResponse" -> {FreeText(2, item.name, NameLength)}
      [] applied = "formatLibraryFoldersResponse" -> {FreeText(2, item.name, TitleLength)}
      [] applied = "formatLibraryFolderCallsResponse" ->
            {FreeText(2, item.title, TitleLength)}
            \cup (IF item.note # None /\ item.note[1] # <<>>
                  THEN {FreeText(6, item.note, NoteLength)} ELSE {})

Occurrences(text, c, i) == Cardinality({k \in 1..i : text[k] = c})

(* where the image of character i of the source ends in the cell *)
ImageEnd(text, i) == i + Occurrences(text, "|", i) - Occurrences(text, "\r", i)

(* the cell without the ellipsis that marks a cut note *)
CellText(cell) ==
    IF cell # <<>> /\ cell[Len(cell)] = Ellipsis THEN SubSeq(cell, 1, Len(cell) - 1) ELSE cell

IsEscapeOf(text, cell) ==
    /\ Len(cell) = ImageEnd(text, Len(text))
    /\ \A i \in 1..Len(text) :
          LET at == ImageEnd(text, i)
          IN  CASE text[i] = "|" -> cell[at - 1] = "\\" /\ cell[at] = "|"
                [] text[i] = "\n" -> cell[at] = " "
                [] text[i] = "\r" -> TRUE
                [] OTHER -> cell[at] = text[i]

TableSafe(cell) ==
    \A k \in 1..Len(cell) :
        /\ cell[k] \notin {"\n", "\r"}
        /\ cell[k] = "|" => (k > 1 /\ cell[k - 1] = "\\")

(* C19: in every table row, the cell of a title, name or note holds the     *)
(* source text cut to its length with every '|' written as '\|', every      *)
(* newline as one space and every carriage return removed: the cell has no  *)
(* newline, no carriage return and no pipe without a backslash before it.   *)
MarkdownEscaped ==
    applied # "" =>
        /\ Len(Rows) = Len(GivenItems)
        /\ \A i \in 1..Len(Rows) : \A f \in FreeTexts(GivenItems[i]) :
              LET cell == CellText(Rows[i].cells[f.cell])
              IN  /\ TableSafe(cell)
                  /\ f.text # None =>
                        IsEscapeOf(SubSeq(f.text[1], 1, Min(f.keep, Len(f.text[1]))), cell)

(* a user named '|' and newline, carriage return; a title cut inside a run  *)
(* of pipes                                                                 *)
MarkdownEscapedWitness ==
    /\ applied = "formatUsersResponse"
    /\ Len(Rows) = 2
    /\ Rows[1].cells[2] = <<"\\", "|", " ", " ">>
    /\ given.users[2].title = Some(LongText(UserTitleLength))
    /\ Len(Rows[2].cells[4]) = UserTitleLength + 1
    /\ SubSeq(Rows[2].cells[4], UserTitleLength - 1, UserTitleLength + 1) = <<"a", "\\", "|">>

----------------------------------------------------------------------------
(* Properties of the placeholders *)

Optional(cell, missing) == [cell |-> cell, missing |-> missing, placeholder |-> <<"-">>]

(* the cells of a row that come from optional fields, and whether the field *)
(* of the item is absent or null                                            *)
OptionalCells(item) ==
    CASE applied \in {"formatCallsResponse", "formatCallDetailsResponse"} ->
            LET call == IF applied = "formatCallsResponse" THEN item ELSE item.metaData
            IN  {Optional(2, call.title = None), Optional(3, call.started = None),
                 Optional(4, call.duration = None), Optional(5, call.scope = None)}
      [] applied = "formatUsersResponse" ->
            {Optional(2, item.firstName = None /\ item.lastName = None),
             Optional(3, item.emailAddress = None), Optional(4, item.title = None),
             Optional(5, item.active = None)}
      [] applied = "formatTrackersResponse" ->
            {Optional(1, item.trackerName = None), Optional(2, item.affiliation = None),
             Optional(3, item.saidAt = None), Optional(4, item.languageKeywords = None)}
      [] applied = "formatWorkspacesResponse" ->
            {Optional(2, item.name = None), Optional(3, item.description = None)}
      [] applied = "formatLibraryFoldersResponse" ->
            {Optional(2, item.name = None),
             [cell |-> 3, missing |-> item.parentFolderId = None, placeholder |-> <<"Root">>]}
      [] applied = "formatLibraryFolderCallsResponse" ->
            {Optional(2, item.title = None), Optional(3, item.addedBy = None),
             Optional(4, item.created = None),
             Optional(5, \/ item.snippet = None
                         \/ item.snippet[1].fromSec = None
                         \/ item.snippet[1].toSec = None),
             Optional(6, item.note = None)}

(* C21 as stated: in every data row of every list table a cell whose        *)
(* optional source field is absent or null is '-' ('Root' for the parent    *)
(* folder), a cell is '-' only then, and no cell is blank.                  *)
PlaceholderForMissing ==
    applied # "" =>
        \A i \in 1..Len(Rows) : \A c \in OptionalCells(GivenItems[i]) :
            LET cell == Rows[i].cells[c.cell]
            IN  /\ c.missing => cell = c.placeholder
                /\ cell = <<"-">> => c.missing
                /\ cell # <<>>

----------------------------------------------------------------------------
(* Properties of the resource gong://users *)

(* C22 as stated: a read of gong://users that returns contents returns a    *)
(* text in which every user held by the remote end has its row, whatever    *)
(* the number of users and the page size of the remote end.                 *)
FullUserList ==
    (applied = "gong://users" /\ result.contents # None) =>
        LET text == result.contents[1][1].text
        IN  \A k \in 1..Len(given.users) :
                \E i \in 1..Len(text) :
                    text[i].kind = "row" /\ text[i].cells[1] = given.users[k].id

----------------------------------------------------------------------------
(* Further properties of formatCallTranscript *)

(* C23: for a transcript with zero monologues the output is exactly the     *)
(* heading of the call and the line '*No transcript available*', for every  *)
(* offset and maxLength: no status line, no marker, no hint, no slice.      *)
EmptyTranscript ==
    (output # None /\ ~NonEmpty) =>
        /\ output[1] = <<[kind |-> "heading", callId |-> transcript.callId], [kind |-> "empty"]>>
        /\ \A k \in {"status", "truncatedStart", "truncated", "hint", "slice"} : ~Has(output[1], k)

(* an empty transcript requested at an offset beyond 0 *)
EmptyTranscriptWitness ==
    /\ output # None /\ ~NonEmpty
    /\ ReqOffset(options) > 0
    /\ ReqMaxLength(options) = 1
    /\ Len(output[1]) = 2

(* the label the party list gives to a speaker: the name of a party with    *)
(* that speakerId, else its emailAddress, else 'Speaker <speakerId>'        *)
ExpectedLabel(id) ==
    LET fallback == <<"S", "p", "e", "a", "k", "e", "r", " ">> \o id
        hits == IF parties = None THEN {}
                ELSE {i \in 1..Len(parties[1]) : parties[1][i].speakerId = Some(id)}
    IN  IF hits = {} THEN fallback
        ELSE LET party == parties[1][CHOOSE i \in hits : TRUE]
             IN  IF party.name # None THEN party.name[1]
                 ELSE IF party.emailAddress # None THEN party.emailAddress[1]
                 ELSE fallback

ExpectedMonologue(entry) ==
    <<"[">> \o ExpectedLabel(entry.speakerId) \o <<"]", ":", " ">>
        \o escapeMarkdown(Join(entry.sentences, <<" ">>)) \o <<"\n">>

OffsetBeyondEnd ==
    (output # None /\ NonEmpty /\ ReqOffset(options) >= FullLength) =>
        /\ Has(output[1], "slice") /\ SliceOf(output[1]) = <<>>
        /\ Has(output[1], "status")
        /\ Has(output[1], "truncatedStart")
        /\ ~Has(output[1], "truncated")
        /\ ~Has(output[1], "hint")

(* an offset beyond the end, reached by a continuation request *)
OffsetBeyondEndWitness ==
    /\ output # None /\ NonEmpty /\ prevOptions # None
    /\ ReqOffset(options) > FullLength
    /\ [k \in 1..Len(output[1]) |-> output[1][k].kind]
          = <<"heading", "status", "truncatedStart", "slice">>

(* C29 as stated: whenever the status line 'Showing characters A-B of T     *)
(* total' is emitted, the slice is the characters at the 1-indexed          *)
(* positions A..B of the full text, A <= B + 1 and the slice has B - A + 1  *)
(* characters.                                                              *)
StatusIsWindow ==
    (output # None /\ Has(output[1], "status")) =>
        LET A == StatusOf(output[1]).from
            B == StatusOf(output[1]).to
        IN  /\ A <= B + 1
            /\ Len(SliceOf(output[1])) = B - A + 1
            /\ SliceOf(output[1]) = SubSeq(fullText(transcript, parties), A, B)

(* C29, amended: whenever the status line is emitted for an offset that     *)
(* does not exceed the length T of the full text, the slice is the          *)
(* characters at the 1-indexed positions A..B of the full text, A <= B + 1  *)
(* and the slice has B - A + 1 characters; for an offset beyond T the line  *)
(* reads A = offset + 1 and B = T, and the slice is empty.                  *)
StatusIsWindowWithinText ==
    (output # None /\ Has(output[1], "status")) =>
        LET full == fullText(transcript, parties)
            st == StatusOf(output[1])
            slice == SliceOf(output[1])
            A == st.from
            B == st.to
        IN  IF ReqOffset(options) <= Len(full)
            THEN /\ 1 <= A /\ A <= B + 1 /\ B <= Len(full)
                 /\ Len(slice) = B - A + 1
                 /\ slice = SubSeq(full, A, B)
            ELSE /\ A = ReqOffset(options) + 1 /\ B = Len(full)
                 /\ slice = <<>>

(* a window inside the text, cut at both ends *)
StatusIsWindowWitness ==
    /\ output # None /\ Has(output[1], "status")
    /\ StatusOf(output[1]).from = 3
    /\ StatusOf(output[1]).to = 6
    /\ Len(SliceOf(output[1])) = 4
    /\ Has(output[1], "truncatedStart") /\ Has(output[1], "hint")

----------------------------------------------------------------------------
(* Further properties of the table formatters *)

IsFolderCalls == applied = "formatLibraryFolderCallsResponse"

(* C25: in the library-folder-calls table a note of more than 60 characters *)
(* is the escaped form of its first 60 characters followed by one ellipsis, *)
(* a note of 1 to 60 characters is its escaped form in full without an      *)
(* ellipsis, and an absent or null note is '-'.                             *)
NoteTruncation ==
    IsFolderCalls =>
        \A i \in 1..Len(Rows) :
            LET note == GivenItems[i].note
                cell == Rows[i].cells[6]
                front == SubSeq(cell, 1, Len(cell) - 1)
            IN  /\ note = None => cell = <<"-">>
                /\ (note # None /\ Len(note[1]) \in 1..60) =>
                      /\ \A k \in 1..Len(cell) : cell[k] # Ellipsis
                      /\ IsEscapeOf(note[1], cell)
                /\ (note # None /\ Len(note[1]) > 60) =>
                      /\ cell[Len(cell)] = Ellipsis
                      /\ \A k \in 1..Len(front) : front[k] # Ellipsis
                      /\ IsEscapeOf(SubSeq(note[1], 1, 60), front)

(* a note of exactly 60 characters next to one of 62 *)
NoteTruncationWitness ==
    /\ IsFolderCalls /\ Len(Rows) = 2
    /\ GivenItems[1].note # None /\ GivenItems[2].note # None
    /\ Len(GivenItems[1].note[1]) = 60
    /\ Len(Rows[1].cells[6]) = 62
    /\ Rows[1].cells[6][62] = "a"
    /\ Len(GivenItems[2].note[1]) = 62
    /\ Len(Rows[2].cells[6]) = 62
    /\ SubSeq(Rows[2].cells[6], 60, 62) = <<"\\", "|", Ellipsis>>

(* minutes unpadded, seconds in two digits *)
MinutesSeconds(s) ==
    <<ToString(s \div 60), ":">>
        \o (IF s % 60 < 10 THEN <<"0", ToString(s % 60)>> ELSE <<ToString(s % 60)>>)

(* C26: in the library-folder-calls table the Snippet cell of a call whose  *)
(* snippet has both fromSec and toSec (0 included) is                       *)
(* '<floor(fromSec/60)>:<fromSec mod 60 in two digits>', an en dash and the *)
(* same for toSec, with the minutes unpadded; it is '-' when the snippet    *)
(* is absent or null or one of its bounds is missing.                       *)
SnippetTiming ==
    IsFolderCalls =>
        \A i \in 1..Len(Rows) :
            LET snippet == GivenItems[i].snippet
                cell == Rows[i].cells[5]
            IN  IF snippet # None /\ snippet[1].fromSec # None /\ snippet[1].toSec # None
                THEN cell = MinutesSeconds(snippet[1].fromSec[1]) \o <<EnDash>>
                                \o MinutesSeconds(snippet[1].toSec[1])
                ELSE cell = <<"-">>

(* 305 to 540 seconds is 5:05 to 9:00, and 0 to 59 seconds is 0:00 to 0:59 *)
SnippetTimingWitness ==
    /\ IsFolderCalls /\ Len(Rows) = 2
    /\ GivenItems[1].snippet = Some([fromSec |-> Some(305), toSec |-> Some(540)])
    /\ Rows[1].cells[5] = <<"5", ":", "0", "5", EnDash, "9", ":", "0", "0">>
    /\ GivenItems[2].snippet = Some([fromSec |-> Some(0), toSec |-> Some(59)])
    /\ Rows[2].cells[5] = <<"0", ":", "0", "0", EnDash, "0", ":", "59">>

(* the keywords of all languages of a tracker, in order *)
AllKeywords(tracker) ==
    IF tracker.languageKeywords = None THEN <<>>
    ELSE flatKeywords(tracker.languageKeywords[1], 1)

(* C27: the Keywords cell of a tracker row is the first min(5, n) keywords  *)
(* of the concatenation of the tracker's per-language keyword lists, in     *)
(* order, joined by ', '; no keyword from position 6 on is in the cell, and *)
(* the cell is '-' when n = 0 or the lists are absent.                      *)
KeywordCap ==
    applied = "formatTrackersResponse" =>
        \A i \in 1..Len(Rows) :
            LET all == AllKeywords(GivenItems[i])
                n == Len(all)
                shown == IF n < 5 THEN n ELSE 5
                cell == Rows[i].cells[4]
            IN  IF n = 0 THEN cell = <<"-">>
                ELSE cell = Join([k \in 1..shown |-> escapeMarkdown(all[k])], <<",", " ">>)

(* four keywords in one language and two in another: the sixth is left out *)
KeywordCapWitness ==
    /\ applied = "formatTrackersResponse" /\ Len(Rows) = 1
    /\ Len(AllKeywords(GivenItems[1])) = 6
    /\ Rows[1].cells[4] =
          <<"k", "1", ",", " ", "k", "2", ",", " ", "k", "3", ",", " ", "k", "4", ",", " ",
            "k", "1">>

----------------------------------------------------------------------------
(* Further properties of the tool-call handler *)

BothFetched ==
    /\ name = "get_call_transcript" /\ Len(ops) = 2 /\ pc = "done"
    /\ AnswerSucceeds(ops[1]) /\ AnswerSucceeds(ops[2])

FetchedTranscript == ops[1].answer[1].json[1].items[1][1].transcript

(* the details fetch found no call, or a call without a party list *)
NoParties ==
    \/ EmptyList(ops[2])
    \/ ops[2].answer[1].json[1].items[1][1].parties = None

UnnamedMonologue(entry) ==
    <<"[", "S", "p", "e", "a", "k", "e", "r", " ">> \o entry.speakerId \o <<"]", ":", " ">>
        \o escapeMarkdown(Join(entry.sentences, <<" ">>)) \o <<"\n">>

(* C30: when both fetches of get_call_transcript succeed, the invocation    *)
(* is an error exactly when the transcript result set is empty; with a      *)
(* transcript and an empty details result set, or a call without parties,   *)
(* the transcript is rendered with every monologue labelled                 *)
(* 'Speaker <speakerId>'.                                                   *)
DetailsOptional ==
    BothFetched =>
        /\ IsError <=> EmptyList(ops[1])
        /\ EmptyList(ops[1]) => ResponseText[2] = "Transcript not found: "
        /\ (~EmptyList(ops[1]) /\ NoParties /\ FetchedTranscript # <<>>) =>
              LET full == Join([i \in 1..Len(FetchedTranscript) |->
                                   UnnamedMonologue(FetchedTranscript[i])], <<"\n">>)
                  offset == validated[1]["offset"][1]
              IN  /\ Has(ResponseText, "slice")
                  /\ SliceOf(ResponseText) = SubSeq(full, offset + 1, Len(full))

(* the details fetch found no call; the transcript has two speakers *)
DetailsOptionalWitness ==
    /\ BothFetched
    /\ EmptyList(ops[2])
    /\ ~EmptyList(ops[1]) /\ Len(FetchedTranscript) = 2
    /\ ~IsError
    /\ validated[1]["offset"] = Some(0)
    /\ SubSeq(SliceOf(ResponseText), 1, 13) =
          <<"[", "S", "p", "e", "a", "k", "e", "r", " ", "1", "]", ":", " ">>

====
